---- MODULE Spec2Model ----
(***************************************************************************)
(* The agent decision loop (src/core/agent-core.ts, runAgent) and the tool *)
(* registry (src/core/tool-registry.ts), as a state machine.               *)
(*                                                                         *)
(* One step of the model is what the JavaScript run-to-completion          *)
(* semantics make atomic: the code from one resumption (a promise the run  *)
(* awaits settles) to the next await.  The environment is the model        *)
(* (client.chat resolves with a response or rejects) and the tools (a      *)
(* tool's execute throws synchronously, or returns a promise that later    *)
(* resolves or rejects).                                                   *)
(*                                                                         *)
(* Text is a sequence of fragments: the template literal                   *)
(* `Unknown tool: ${name}` is <<"Unknown tool: ", name>>, the empty string *)
(* is << >>, and a text contains s when s is one of its fragments.         *)
(* An optional value is << >> (absent) or <<v>>.                           *)
(***************************************************************************)
EXTENDS Integers, Sequences, FiniteSets, TLC

VARIABLES
    tools,          \* tool-registry.ts: the Map name -> definition, in insertion order
    registered,     \* tools/node/index.ts: the one-shot flag of registerBuiltinTools
    pc,             \* where the run is: "idle", "chat", "tool", "done", "threw"
    message,        \* params.message
    provider,       \* params.provider
    configKey,      \* params.config.agent?.apiKey
    env,            \* process.env: the names of the variables that are set
    dryRun,         \* params.dryRun
    round,          \* the loop counter of runAgent
    messages,       \* the conversation
    allToolCalls,   \* the audit trail
    finalReply,     \* the reply runAgent returns
    response,       \* the model response of the current round
    toolResults,    \* the (toolCallId, result) pairs of the current round
    pending,        \* dispatchToolCall invocations whose result the run has not received
    thrown,         \* the exception the run ended with, if any
    chatError,      \* history: the exception client.chat raised, if any
    chatCalls,      \* history: number of client.chat invocations
    dispatchLog,    \* history: every dispatchToolCall invocation and what it settled with
    executed,       \* history: every invocation of a tool's execute
    sent,           \* history: the conversation passed to the latest client.chat call
    requests,       \* history: number of requests sent to the provider
    wire,           \* history: the messages of the latest request, in the provider's format
    regLog,         \* history: the definition of every registerTool call, in call order
    runs,           \* history: number of runAgent calls in this process
    systemPrompt,   \* the system prompt runAgent built
    catalogue,      \* the tool definitions runAgent read (its constant `tools`)
    sentWith,       \* history: the prompt and the tools passed to the latest client.chat call
    varied,         \* exploration budget spent so far
    trip,           \* an assistant turn on its way from the provider and back
    exec,           \* a runCommandWithTimeout call: its closure variables and its promise
    ui,             \* the demo page: isProcessing, its controls and its chat panel
    handler,        \* the content script's message listener: what it received and answered
    repl,           \* the interactive chat loop: its position, its readline interface, its output
    browserTool,    \* the browser tool: runningInstance, the controllers, the browsers, the executions
    pair            \* runAgent invocations in flight together: the registry, the arrays, each run's locals

agentVars == <<tools, registered, pc, message, provider, configKey, env, dryRun, round,
          messages, allToolCalls, finalReply, response, toolResults, pending, thrown,
          chatError, chatCalls, dispatchLog, executed, sent, requests, regLog, runs,
          systemPrompt, catalogue, sentWith, wire, varied>>

\* The variables of the other components of the program, which runAgent
\* and the registry do not touch.
hostVars == <<trip, exec, ui, handler, repl, browserTool, pair>>

\* What each of them leaves alone.
outsideTrip == <<agentVars, exec, ui, handler, repl, browserTool, pair>>
outsideExec == <<agentVars, trip, ui, handler, repl, browserTool, pair>>
outsideUi == <<agentVars, trip, exec, handler, repl, browserTool, pair>>
outsideHandler == <<agentVars, trip, exec, ui, repl, browserTool, pair>>
outsideRepl == <<agentVars, trip, exec, ui, handler, browserTool, pair>>
outsideBrowserTool == <<agentVars, trip, exec, ui, handler, repl, pair>>
outsidePair == <<agentVars, trip, exec, ui, handler, repl, browserTool>>

vars == <<agentVars, hostVars>>

(***************************************************************************)
(* Bounds of the exploration.                                              *)
(***************************************************************************)
\* A run follows the plain script (a response asks for one file_read with
\* an object input and carries no text, or it is the final text; every
\* execute resolves with text content) except in at most MaxVaried places.
MaxVaried == 2

\* The places are in the first DeviantRounds rounds of a run or in its last
\* round: the body of the loop does not look at the loop counter.
DeviantRounds == 2

\* The same budget for the runs whose termination is checked (FairSpec).
MaxVariedLive == 1

\* dispatchToolCall invocations of a direct caller (DispatchSpec).
MaxDispatches == 2

(***************************************************************************)
(* Program constants.                                                      *)
(***************************************************************************)
MAX_TOOL_ROUNDS == 10

(***************************************************************************)
(* Values.                                                                 *)
(***************************************************************************)
None == << >>
Some(x) == <<x>>
IsSome(o) == Len(o) > 0
Get(o) == o[1]

EmptyText == << >>

\* JavaScript values a tool-call input can be.
NullInput == [tag |-> "null", fields |-> << >>]
UndefinedInput == [tag |-> "undefined", fields |-> << >>]
Obj(fields) == [tag |-> "object", fields |-> fields]

\* JSON.stringify of an object whose values are strings, as `{"k":"v",...}`.
RECURSIVE JSONFields(_)
JSONFields(fields) ==
    IF Len(fields) = 0 THEN << >>
    ELSE <<"\"", fields[1][1], "\":\"", fields[1][2], "\"">>
         \o (IF Len(fields) > 1 THEN <<",">> ELSE << >>)
         \o JSONFields(Tail(fields))

JSONStringify(v) ==
    IF v.tag = "object" THEN <<"{">> \o JSONFields(v.fields) \o <<"}">>
    ELSE <<"null">>

\* A tool result: content is a string or a structured object; details is
\* optional.
StringContent(text) == [type |-> "string", text |-> text, obj |-> Obj(<< >>)]
ObjectContent(obj) == [type |-> "object", text |-> EmptyText, obj |-> obj]
ToolResult(content, details) == [content |-> content, details |-> details]

\* Thrown values: an Error instance with a message, or a primitive.
ErrorValue(m) == [isError |-> TRUE, message |-> m, prim |-> 0]
PrimitiveValue(n) == [isError |-> FALSE, message |-> "", prim |-> n]

\* String(err) of a primitive number: its decimal digits.
String(err) == ToString(err.prim)

(***************************************************************************)
(* The tool registry (src/core/tool-registry.ts).                          *)
(***************************************************************************)
ToolDefinition(name, impl) == [name |-> name, impl |-> impl]

\* A bug: setting an existing key moves it to the end (delete, then set).
MapSetMovesToEnd(map, tool) ==
    SelectSeq(map, LAMBDA d : d.name # tool.name) \o <<tool>>

\* Map.prototype.set: replaces the value of an existing key in place,
\* appends a new key.
RECURSIVE MapSet(_, _)
MapSet(map, tool) ==
    IF Len(map) = 0 THEN <<tool>>
    ELSE IF map[1].name = tool.name THEN <<tool>> \o Tail(map)
    ELSE <<map[1]>> \o MapSet(Tail(map), tool)

\* Map.prototype.get, as an optional value.
MapGet(map, name) ==
    IF \E i \in 1..Len(map) : map[i].name = name
    THEN Some(map[CHOOSE i \in 1..Len(map) : map[i].name = name])
    ELSE None

\* A bug: a name that is already registered keeps its definition.
registerToolKeepsFirst(map, tool) ==
    IF IsSome(MapGet(map, tool.name)) THEN map ELSE Append(map, tool)

\* registerTool, lines 66-68.
registerTool(map, tool) == MapSet(map, tool)

getToolDefinitions(map) == map

\* The built-in tools in the order tools/node/index.ts registers them.
BuiltinTools ==
    << ToolDefinition("exec", "builtin"),
       ToolDefinition("browser", "builtin"),
       ToolDefinition("web_fetch", "builtin"),
       ToolDefinition("web_search", "builtin"),
       ToolDefinition("file_read", "builtin"),
       ToolDefinition("file_write", "builtin"),
       ToolDefinition("list_dir", "builtin") >>

RECURSIVE RegisterAll(_, _)
RegisterAll(map, defs) ==
    IF Len(defs) = 0 THEN map
    ELSE CHOOSE after \in { RegisterAll(next, Tail(defs)) :
                              next \in {registerTool(map, defs[1])} } : TRUE

\* A bug: the one-shot flag is not looked at.
RegisterCallsEveryTime(flag) == BuiltinTools

\* registerBuiltinTools, lines 20-30: the registerTool calls it makes, one
\* for each definition a factory returns; none once the flag is set.
RegisterCalls(flag) == IF flag THEN << >> ELSE BuiltinTools

\* registerBuiltinTools: the registry after the call.
registerBuiltinTools(map, flag) == RegisterAll(map, RegisterCalls(flag))

\* `input ?? {}`
Params(input) ==
    IF input.tag \in {"null", "undefined"} THEN Obj(<< >>) ELSE input

\* What a dispatchToolCall invocation settles with: its promise resolves
\* with a result, or rejects with a thrown value.
Resolved(result) == [kind |-> "result", result |-> result, err |-> ErrorValue("")]
Rejected(err) ==
    [kind |-> "throws", result |-> ToolResult(StringContent(EmptyText), None),
     err |-> err]

\* A bug: the unknown-tool text does not say which name was asked for.
UnknownToolAnonymous(name) ==
    Resolved(ToolResult(StringContent(<<"Unknown tool">>),
                        Some([error |-> TRUE, toolName |-> name, message |-> ""])))

\* dispatchToolCall, lines 91-97: the name is not registered.
UnknownTool(name) ==
    Resolved(ToolResult(StringContent(<<"Unknown tool: ", name>>),
                        Some([error |-> TRUE, toolName |-> name, message |-> ""])))

\* A bug: the message of a thrown value that is no Error is lost.
ErrorMessageOfErrorsOnly(err) == err.message

\* dispatchToolCall, line 104.
ErrorMessage(err) == IF err.isError THEN err.message ELSE String(err)

\* A bug: the catch block rethrows.
ExecuteFailedRethrows(name, err) == Rejected(err)

\* dispatchToolCall, lines 102-109: execute threw or its promise rejected.
ExecuteFailed(name, err) ==
    Resolved(ToolResult(
        StringContent(<<"Tool \"", name, "\" failed: ", ErrorMessage(err)>>),
        Some([error |-> TRUE, toolName |-> name, message |-> ErrorMessage(err)])))

\* dispatchToolCall, line 101: execute's promise resolved with result.
ExecuteReturned(result) == Resolved(result)


\* dispatchToolCall up to its first suspension, lines 90-101: the lookup,
\* then the invocation of execute, which throws synchronously (b.kind =
\* "throw") or returns a promise.  The invocation in flight: st is
\* "executing" while execute's promise is unsettled, "settled" once
\* dispatchToolCall's own promise is; how and err remember what the tool
\* did ("unknown": no tool ran).
DispatchStart(map, idx, call, b) ==
    LET tool == MapGet(map, call.name) IN
    IF ~IsSome(tool)
    THEN [idx |-> idx, call |-> call, st |-> "settled", how |-> "unknown",
          err |-> ErrorValue(""), outcome |-> UnknownTool(call.name)]
    ELSE IF b.kind = "throw"
    THEN [idx |-> idx, call |-> call, st |-> "settled", how |-> "threw",
          err |-> b.err, outcome |-> ExecuteFailed(call.name, b.err)]
    ELSE [idx |-> idx, call |-> call, st |-> "executing", how |-> "promise",
          err |-> ErrorValue(""),
          outcome |-> Resolved(ToolResult(StringContent(EmptyText), None))]

\* A bug: `return tool.execute(params)` without the await, so that a
\* rejection passes the try block by.
DispatchSettleNoAwait(p, o) ==
    IF o.kind = "resolve" THEN ExecuteReturned(o.result) ELSE Rejected(o.err)

\* dispatchToolCall after execute's promise settled, lines 101-109.
DispatchSettle(p, o) ==
    IF o.kind = "resolve" THEN ExecuteReturned(o.result)
    ELSE ExecuteFailed(p.call.name, o.err)

\* The settled invocation, as it is remembered in the dispatch log.
Settled(p, o) ==
    [idx |-> p.idx, call |-> p.call, st |-> "settled",
     how |-> IF o.kind = "resolve" THEN "returned" ELSE "rejected",
     err |-> o.err, outcome |-> DispatchSettle(p, o)]

LogEntry(r, p) ==
    [round |-> r, idx |-> p.idx, call |-> p.call, how |-> p.how, err |-> p.err,
     outcome |-> p.outcome]

(***************************************************************************)
(* The environment: what the model answers and what the tools do.          *)
(***************************************************************************)
PlainInput == Obj(<< <<"filePath", "a.txt">> >>)
PlainCall == [name |-> "file_read", input |-> PlainInput]

\* A JSON value: both providers build the input from JSON.
SampleInputs == {PlainInput, NullInput}
SampleNames == {"file_read", "bogus"}
SampleCalls == [name : SampleNames, input : SampleInputs]

\* What a direct caller of dispatchToolCall can pass.
AnyInputs == {PlainInput, NullInput, UndefinedInput}

\* The provider issues the ids; they are unique within a response.
ToolCallId(r, i) == "call_" \o ToString(r) \o "_" \o ToString(i)

WithIds(r, calls) ==
    [i \in 1..Len(calls) |->
        [id |-> ToolCallId(r, i), name |-> calls[i].name, input |-> calls[i].input]]

\* The lists of at most n requested calls.
CallLists(n) == UNION {[1..k -> SampleCalls] : k \in 1..n}

CallCost(c) ==
    IF c.name = PlainCall.name /\ c.input = PlainCall.input THEN 0 ELSE 1

RECURSIVE CallsCost(_)
CallsCost(calls) ==
    IF Len(calls) = 0 THEN 0 ELSE CallCost(Head(calls)) + CallsCost(Tail(calls))

SampleTexts == {None, Some(<<"thinking">>)}

ResponseCost(resp) ==
    (IF IsSome(resp.text) THEN 1 ELSE 0)
    + (Len(Get(resp.toolCalls)) - 1)
    + CallsCost(Get(resp.toolCalls))

\* The responses of round r that carry tool calls and spend at most `left`.
ToolResponses(r, left) ==
    {resp \in {[text |-> t, toolCalls |-> Some(WithIds(r, cs))] :
                  t \in SampleTexts, cs \in CallLists(left + 1)} :
        ResponseCost(resp) <= left}

\* Responses without tool calls: toolCalls absent or empty, text absent or
\* not.
FinalResponses ==
    [text : {None, Some(<<"hello">>)}, toolCalls : {None, Some(<< >>)}]

PlainFinal == [text |-> Some(<<"hello">>), toolCalls |-> None]
FinalCost(resp) == IF resp = PlainFinal THEN 0 ELSE 1

PlainResult == ToolResult(StringContent(<<"contents">>), None)
SampleResults ==
    {PlainResult,
     ToolResult(ObjectContent(Obj(<< <<"status", "ok">> >>)),
                Some([error |-> FALSE, toolName |-> "", message |-> ""]))}
SampleErrors == {ErrorValue("boom"), PrimitiveValue(42)}

\* The values the tools of a run throw: the run never looks into them.
RunErrors == {ErrorValue("boom")}

\* What an invocation of execute does at once, and how its promise settles;
\* errs are the values it may throw or reject with.
ReturnsPromise == [kind |-> "promise", err |-> ErrorValue("")]
Throws(e) == [kind |-> "throw", err |-> e]
SyncBehaviours(errs) == {ReturnsPromise} \cup {Throws(e) : e \in errs}

Resolves(r) == [kind |-> "resolve", result |-> r, err |-> ErrorValue("")]
Rejects(e) == [kind |-> "reject", result |-> PlainResult, err |-> e]
Settlements(errs) ==
    {Resolves(r) : r \in SampleResults} \cup {Rejects(e) : e \in errs}

SyncCost(b) == IF b = ReturnsPromise THEN 0 ELSE 1
SettleCost(o) == IF o = Resolves(PlainResult) THEN 0 ELSE 1

\* What a caller passes to runAgent, and what the process environment holds.
PlainMessage == <<"hi">>
SampleMessages == {PlainMessage, <<"read a.txt">>}
SampleProviders == {"anthropic", "openai", "copilot"}
SampleConfigKeys == {None, Some(EmptyText), Some(<<"sk-config">>)}
SampleEnvs == SUBSET {"ANTHROPIC_API_KEY", "OPENAI_API_KEY"}


(***************************************************************************)
(* The decision loop (src/core/agent-core.ts).                             *)
(***************************************************************************)
UserMessage(text) ==
    [role |-> "user", content |-> text, toolCalls |-> None, results |-> None]
AssistantMessage(text, calls) ==
    [role |-> "assistant", content |-> text, toolCalls |-> Some(calls), results |-> None]
ToolMessage(results) ==
    [role |-> "tool", content |-> EmptyText, toolCalls |-> None, results |-> Some(results)]

\* A bug: an absent text is replaced by a placeholder.
TextOrPlaceholder(t) == IF IsSome(t) THEN Get(t) ELSE <<"(no reply)">>

\* `response.text ?? ""`
TextOrEmpty(t) == IF IsSome(t) THEN Get(t) ELSE EmptyText

\* `if (response.text)`
Truthy(t) == IsSome(t) /\ Get(t) # EmptyText

\* line 107, negated: the response carries tool calls.
HasToolCalls(resp) == IsSome(resp.toolCalls) /\ Len(Get(resp.toolCalls)) > 0

\* line 140: the text of a result sent back to the model.
ResultText(result) ==
    IF result.content.type = "string" THEN result.content.text
    ELSE JSONStringify(result.content.obj)

\* JSON.stringify(v, null, 2).split("\n"): the lines of the indented form.
RECURSIVE PrettyFieldLines(_)
PrettyFieldLines(fields) ==
    IF Len(fields) = 0 THEN << >>
    ELSE << <<"  \"", fields[1][1], "\": \"", fields[1][2], "\"">>
               \o (IF Len(fields) > 1 THEN <<",">> ELSE << >>) >>
         \o PrettyFieldLines(Tail(fields))

PrettyLines(v) ==
    IF v.tag # "object" THEN << <<"null">> >>
    ELSE IF Len(v.fields) = 0 THEN << <<"{}">> >>
    ELSE << <<"{">> >> \o PrettyFieldLines(v.fields) \o << <<"}">> >>

\* lines 123-125.
RECURSIVE ParamLines(_)
ParamLines(lines) ==
    IF Len(lines) = 0 THEN << >>
    ELSE <<"|    ">> \o Head(lines) \o <<"\n">> \o ParamLines(Tail(lines))

\* lines 119-126: the description of one requested call (the labels are
\* written here in ASCII).
DescribeCall(tc) ==
    <<"\n+- tool: ", tc.name, "\n", "|  ID:   ", tc.id, "\n", "|  params:\n">>
    \o ParamLines(PrettyLines(tc.input))
    \o <<"+--------------------\n">>

\* A bug: the calls are described last to first.
RECURSIVE DescribeCallsReversed(_)
DescribeCallsReversed(calls) ==
    IF Len(calls) = 0 THEN << >>
    ELSE DescribeCallsReversed(Tail(calls)) \o DescribeCall(Head(calls))

\* lines 119-127: `for (const tc of response.toolCalls)`.
RECURSIVE DescribeCalls(_)
DescribeCalls(calls) ==
    IF Len(calls) = 0 THEN << >>
    ELSE DescribeCall(Head(calls)) \o DescribeCalls(Tail(calls))

\* lines 113-128: the reply of a dry run.
DryRunReply(resp) ==
    (IF Truthy(resp.text) THEN Get(resp.text) \o <<"\n\n">> ELSE EmptyText)
    \o <<"AI requested the following tools (dry-run, not executed):\n">>
    \o DescribeCalls(Get(resp.toolCalls))

\* A bug: the dry-run branch is never taken.
NeverDryRun(dry) == FALSE

\* line 113: `if (params.dryRun)`.
TakesDryRunBranch(dry) == dry

\* A bug: the rejection is caught and the run returns what it has.
OnChatRejectedSwallowed(err) == [pc |-> "done", thrown |-> None]

\* lines 100-104: the await of client.chat stands in no try block, so a
\* rejection leaves runAgent with the same exception.
OnChatRejected(err) == [pc |-> "threw", thrown |-> Some(err)]

\* A bug: the pair is keyed by the tool's name instead of the call's id.
ToolResultEntryByName(tc, result) ==
    [toolCallId |-> tc.name, result |-> ResultText(result)]

\* lines 138-141: the pair sent back to the model for call tc.
ToolResultEntry(tc, result) ==
    [toolCallId |-> tc.id, result |-> ResultText(result)]

\* A bug: the audit trail records the parameters execute was given
\* (`input ?? {}`) instead of the input of the model.
AuditEntryOfParams(tc, result) ==
    [name |-> tc.name, input |-> Params(tc.input), result |-> result]

\* line 137: the audit-trail entry of call tc.
AuditEntry(tc, result) == [name |-> tc.name, input |-> tc.input, result |-> result]

\* A bug: the assistant message of the round is not appended.
RoundMessagesToolOnly(text, calls, results) == << ToolMessage(results) >>

\* lines 146-155: what a round appends to the conversation.
RoundMessages(text, calls, results) ==
    << AssistantMessage(TextOrEmpty(text), calls), ToolMessage(results) >>

\* A bug: an off-by-one loop condition.
LoopContinuesInclusive(r) == r <= MAX_TOOL_ROUNDS

\* line 98: the loop condition.
LoopContinues(r) == r < MAX_TOOL_ROUNDS

\* lines 134-136: `for (const tc of response.toolCalls) { await dispatch... }`.
\* The calls whose dispatch starts when the loop over the calls is entered,
\* and those that start when the run receives the result of call i.
\* A bug: all the calls of a response are dispatched at once.
FirstBatchAll(calls) == 1..Len(calls)

FirstBatch(calls) == {1}
NextBatch(calls, i) == IF i < Len(calls) THEN {i + 1} ELSE {}

\* The invocations of execute that starting the calls idxs makes, in order.
RECURSIVE Invocations(_, _, _, _)
Invocations(map, calls, idxs, n) ==
    IF n = 0 THEN << >>
    ELSE Invocations(map, calls, idxs, n - 1)
         \o (IF n \in idxs /\ IsSome(MapGet(map, calls[n].name))
             THEN << [name |-> calls[n].name, params |-> Params(calls[n].input),
                      impl |-> Get(MapGet(map, calls[n].name)).impl] >>
             ELSE << >>)

\* The dispatches among ps that have already settled, as log entries.
RECURSIVE LogOf(_)
LogOf(ps) ==
    IF ps = {} THEN << >>
    ELSE LET p == CHOOSE q \in ps : \A q2 \in ps : q.idx <= q2.idx
         IN (IF p.st = "settled" THEN <<LogEntry(round, p)>> ELSE << >>)
            \o LogOf(ps \ {p})

\* What a synchronous behaviour spends of the budget when it is applied to
\* the calls idxs; a behaviour other than the plain one is only drawn when
\* some execute is invoked.
StartCost(map, calls, idxs, b) ==
    IF \E i \in idxs : IsSome(MapGet(map, calls[i].name)) THEN SyncCost(b)
    ELSE IF b = ReturnsPromise THEN 0 ELSE MaxVaried + 1

\* The run calls dispatchToolCall for the calls idxs; `rest` is what stays
\* in flight, `log` the dispatch log so far.
StartDispatches(calls, idxs, b, rest, log) ==
    LET started == {DispatchStart(tools, i, calls[i], b) : i \in idxs} IN
    /\ pending' = rest \cup started
    /\ executed' = executed \o Invocations(tools, calls, idxs, Len(calls))
    /\ dispatchLog' = log \o LogOf(started)

(***************************************************************************)
(* The AI client (ai-client.ts): the factory and the credential check that *)
(* both providers' chat() makes before it sends anything.                  *)
(***************************************************************************)
SupportedProviders == {"anthropic", "openai"}

\* A bug: an unknown provider identifier falls through to a client.
createAIClientLenient(p) == [ok |-> TRUE, err |-> ErrorValue("")]

\* createAIClient, lines 45-56: a client, or the configuration error thrown.
createAIClient(p) ==
    IF p \in SupportedProviders
    THEN [ok |-> TRUE, err |-> ErrorValue("")]
    ELSE [ok |-> FALSE,
          err |-> ErrorValue("Unknown AI provider: " \o p
                             \o ". Supported: anthropic, openai")]

\* The environment variable the client of provider p reads.
KeyVariable(p) == IF p = "anthropic" THEN "ANTHROPIC_API_KEY" ELSE "OPENAI_API_KEY"

\* `process.env.NAME`
EnvValue(e, name) == IF name \in e THEN Some(<<"sk-env">>) ELSE None

\* `params.config.agent?.apiKey ?? process.env.NAME`
ApiKey(p, cfg, e) == IF IsSome(cfg) THEN cfg ELSE EnvValue(e, KeyVariable(p))

\* A bug: the request is sent whether or not there is a key.
MissingKeyIgnored(p, cfg, e) == FALSE

\* `if (!apiKey)`
MissingKey(p, cfg, e) == ~Truthy(ApiKey(p, cfg, e))

MissingKeyError(p) == ErrorValue("Missing " \o KeyVariable(p))

\* A message or a content block in a provider's format.  content is absent
\* (null) where the format has none.
WireMessage(role, content, blocks, tool_call_id, tool_calls) ==
    [role |-> role, content |-> content, blocks |-> blocks,
     tool_call_id |-> tool_call_id, tool_calls |-> tool_calls]
TextBlock(text) ==
    [type |-> "text", id |-> "", name |-> "", input |-> NullInput, text |-> text]
ToolUseBlock(tc) ==
    [type |-> "tool_use", id |-> tc.id, name |-> tc.name, input |-> tc.input,
     text |-> EmptyText]

\* part_010 lines 93-97.
ToolResultBlock(e) ==
    [type |-> "tool_result", id |-> e.toolCallId, name |-> "", input |-> NullInput,
     text |-> e.result]

\* line 100 and line 202: `m.role === "assistant" && m.toolCalls?.length`
IssuesCalls(m) ==
    m.role = "assistant" /\ IsSome(m.toolCalls) /\ Len(Get(m.toolCalls)) > 0

\* part_010 lines 89-119: one message in Anthropic's format.
AnthropicMessage(m) ==
    IF m.role = "tool" /\ IsSome(m.results)
    THEN WireMessage("user", None,
                     [i \in 1..Len(Get(m.results)) |->
                         ToolResultBlock(Get(m.results)[i])],
                     "", << >>)
    ELSE IF IssuesCalls(m)
    THEN WireMessage("assistant", None,
                     (IF m.content # EmptyText THEN <<TextBlock(m.content)>> ELSE << >>)
                     \o [i \in 1..Len(Get(m.toolCalls)) |->
                            ToolUseBlock(Get(m.toolCalls)[i])],
                     "", << >>)
    ELSE WireMessage(m.role, Some(m.content), << >>, "", << >>)

\* lines 87-119.
AnthropicMessages(msgs) ==
    LET kept == SelectSeq(msgs, LAMBDA m : m.role # "system")
    IN  [i \in 1..Len(kept) |-> AnthropicMessage(kept[i])]

\* A bug: the results of a round are sent last first.
OpenAIToolMessagesReversed(results) ==
    [i \in 1..Len(results) |->
        WireMessage("tool", Some(results[Len(results) + 1 - i].result), << >>,
                    results[Len(results) + 1 - i].toolCallId, << >>)]

\* part_010 lines 195-201: one message for each pair of a tool message.
OpenAIToolMessages(results) ==
    [i \in 1..Len(results) |->
        WireMessage("tool", Some(results[i].result), << >>,
                    results[i].toolCallId, << >>)]

\* lines 206-210.
OpenAIToolCall(tc) ==
    [id |-> tc.id, type |-> "function", name |-> tc.name,
     arguments |-> JSONStringify(tc.input)]

\* lines 194-217: the messages one message becomes in OpenAI's format.
OpenAIMessage(m) ==
    IF m.role = "tool" /\ IsSome(m.results)
    THEN OpenAIToolMessages(Get(m.results))
    ELSE IF IssuesCalls(m)
    THEN << WireMessage("assistant", Some(m.content), << >>, "",
                        [i \in 1..Len(Get(m.toolCalls)) |->
                            OpenAIToolCall(Get(m.toolCalls)[i])]) >>
    ELSE << WireMessage(m.role, Some(m.content), << >>, "", << >>) >>

\* lines 188-218: the system prompt first, then the first n messages.
RECURSIVE OpenAIMessages(_, _, _)
OpenAIMessages(prompt, msgs, n) ==
    IF n = 0 THEN << WireMessage("system", Some(prompt), << >>, "", << >>) >>
    ELSE OpenAIMessages(prompt, msgs, n - 1) \o OpenAIMessage(msgs[n])

\* The messages of the request chat() sends for the conversation msgs.
WireMessages(p, prompt, msgs) ==
    IF p = "openai" THEN OpenAIMessages(prompt, msgs, Len(msgs))
    ELSE AnthropicMessages(msgs)

\* What runAgent's inputs spend of the budget: one for each input that is
\* not the plain one.
RunCost(msg, p, cfg, e) ==
    (IF msg = PlainMessage THEN 0 ELSE 1)
    + (IF p = "anthropic" THEN 0 ELSE 1)
    + (IF cfg = None THEN 0 ELSE 1)
    + (IF e = {"ANTHROPIC_API_KEY", "OPENAI_API_KEY"} THEN 0 ELSE 1)

\* A bug: only the user's message is sent to the model.
ChatRequestSeedOnly(msgs) == <<msgs[1]>>

\* lines 100-104: the conversation a client.chat call passes on.
ChatRequest(msgs) == msgs

\* The exploration can spend `cost` of its budget in the current round.
Affordable(cost) ==
    \/ cost = 0
    \/ /\ varied + cost <= MaxVaried
       /\ (round < DeviantRounds \/ round = MAX_TOOL_ROUNDS - 1)

\* buildSystemPrompt (agent/system-prompt.ts lines 18-41): the identity
\* section, then one line for each definition in the registry.
buildSystemPrompt(map) ==
    <<"You are AutoPilot">> \o [i \in 1..Len(map) |-> map[i].name \o ": " \o map[i].impl]

\* A bug: the tools are read from the registry again for each model call.
ChatContextLive(prompt, defs, map) ==
    [systemPrompt |-> prompt, tools |-> getToolDefinitions(map)]

\* lines 100-104: the prompt and the tools a client.chat call passes on,
\* both constants of the run.
ChatContext(prompt, defs, map) == [systemPrompt |-> prompt, tools |-> defs]

\* The top of the loop, lines 98-104, for loop counter r, after `calls`
\* model calls, with the prompt and the tools ctx.
LoopTopFrom(r, calls, ctx) ==
    /\ round' = r
    /\ IF LoopContinues(r)
       THEN /\ pc' = "chat"
            /\ chatCalls' = calls + 1
            /\ sent' = ChatRequest(messages')
            /\ sentWith' = Some(ctx)
       ELSE pc' = "done" /\ chatCalls' = calls /\ UNCHANGED <<sent, sentWith>>

LoopTop(r) == LoopTopFrom(r, chatCalls, ChatContext(systemPrompt, catalogue, tools))

inputVars == <<message, provider, configKey, env, dryRun>>
contextVars == <<systemPrompt, catalogue, sentWith>>
processVars == <<tools, registered, regLog, runs>>

\* runAgent, lines 74-104: up to the first model call, or up to the
\* exception of createAIClient.
StartRun ==
    \E msg \in SampleMessages, dry \in BOOLEAN, p \in SampleProviders,
       cfg \in SampleConfigKeys, e \in SampleEnvs :
        /\ varied + RunCost(msg, p, cfg, e) <= MaxVaried
        /\ varied' = varied + RunCost(msg, p, cfg, e)
        /\ message' = msg
        /\ dryRun' = dry
        /\ provider' = p
        /\ configKey' = cfg
        /\ env' = e
        /\ runs' = runs + 1
        /\ tools' = registerBuiltinTools(tools, registered)
        /\ regLog' = regLog \o RegisterCalls(registered)
        /\ registered' = TRUE
        /\ allToolCalls' = << >>
        /\ finalReply' = EmptyText
        /\ response' = [text |-> None, toolCalls |-> None]
        /\ toolResults' = << >>
        /\ pending' = {}
        /\ chatError' = None
        /\ requests' = 0
        /\ wire' = << >>
        /\ UNCHANGED hostVars
        /\ dispatchLog' = << >>
        /\ executed' = << >>
        /\ IF createAIClient(p).ok
           THEN /\ systemPrompt' = buildSystemPrompt(tools')
                /\ catalogue' = getToolDefinitions(tools')
                /\ messages' = <<UserMessage(msg)>>
                /\ thrown' = None
                /\ LoopTopFrom(0, 0, ChatContext(systemPrompt', catalogue', tools'))
           ELSE /\ pc' = "threw"
                /\ thrown' = Some(createAIClient(p).err)
                /\ systemPrompt' = EmptyText
                /\ catalogue' = << >>
                /\ messages' = << >>
                /\ round' = 0
                /\ chatCalls' = 0
                /\ sent' = << >>
                /\ sentWith' = None

\* The first runAgent call of the process.
RunAgent ==
    /\ pc = "idle"
    /\ StartRun

\* The run receives the outcome of the dispatch p, lines 136-157: it
\* records the result and goes on to the next call, or to the next round.
Resume(p, outcome, b, spent, log) ==
    LET calls == Get(response.toolCalls)
        tc == calls[p.idx]
        rest == pending \ {p}
    IN
    IF outcome.kind = "throws"
    THEN /\ pc' = "threw"
         /\ thrown' = Some(outcome.err)
         /\ pending' = rest
         /\ dispatchLog' = log
         /\ varied' = varied + spent
         /\ b = ReturnsPromise
         /\ UNCHANGED <<round, messages, allToolCalls, finalReply, toolResults,
                        chatCalls, executed, sent, sentWith>>
    ELSE
         /\ allToolCalls' = Append(allToolCalls, AuditEntry(tc, outcome.result))
         /\ toolResults' = Append(toolResults, ToolResultEntry(tc, outcome.result))
         /\ IF NextBatch(calls, p.idx) # {}
            THEN /\ Affordable(spent + StartCost(tools, calls, NextBatch(calls, p.idx), b))
                 /\ varied' =
                      varied + spent + StartCost(tools, calls, NextBatch(calls, p.idx), b)
                 /\ StartDispatches(calls, NextBatch(calls, p.idx), b, rest, log)
                 /\ UNCHANGED <<pc, round, messages, chatCalls, sent, sentWith>>
            ELSE /\ b = ReturnsPromise
                 /\ varied' = varied + spent
                 /\ messages' =
                      messages \o RoundMessages(response.text, calls, toolResults')
                 /\ pending' = rest
                 /\ dispatchLog' = log
                 /\ LoopTop(round + 1)
                 /\ UNCHANGED executed
         /\ UNCHANGED <<finalReply, thrown>>

\* client.chat resolves with a response, lines 100-136.
ChatResolves ==
    /\ pc = "chat"
    /\ ~MissingKey(provider, configKey, env)
    /\ requests' = requests + 1
    /\ wire' = WireMessages(provider, Get(sentWith).systemPrompt, sent)
    /\ \E resp \in FinalResponses \cup ToolResponses(round, MaxVaried - varied),
          b \in SyncBehaviours(RunErrors) :
        /\ response' = resp
        /\ IF ~HasToolCalls(resp)
           THEN /\ b = ReturnsPromise
                /\ Affordable(FinalCost(resp))
                /\ varied' = varied + FinalCost(resp)
                /\ finalReply' = TextOrEmpty(resp.text)
                /\ pc' = "done"
                /\ UNCHANGED <<toolResults, pending, executed, dispatchLog>>
           ELSE IF TakesDryRunBranch(dryRun)
           THEN /\ b = ReturnsPromise
                /\ Affordable(ResponseCost(resp))
                /\ varied' = varied + ResponseCost(resp)
                /\ finalReply' = DryRunReply(resp)
                /\ pc' = "done"
                /\ UNCHANGED <<toolResults, pending, executed, dispatchLog>>
           ELSE LET calls == Get(resp.toolCalls)
                    cost == ResponseCost(resp)
                              + StartCost(tools, calls, FirstBatch(calls), b)
                IN  /\ Affordable(cost)
                    /\ varied' = varied + cost
                    /\ toolResults' = << >>
                    /\ StartDispatches(calls, FirstBatch(calls), b, {}, dispatchLog)
                    /\ pc' = "tool"
                    /\ UNCHANGED finalReply
    /\ UNCHANGED <<processVars, inputVars, contextVars, round, messages,
                   allToolCalls, thrown, chatError, chatCalls, sent, hostVars>>

\* client.chat rejects (a transport or provider error): runAgent has no
\* handler, the exception leaves it.
ChatRejects ==
    /\ pc = "chat"
    /\ ~MissingKey(provider, configKey, env)
    /\ requests' = requests + 1
    /\ wire' = WireMessages(provider, Get(sentWith).systemPrompt, sent)
    /\ \E err \in {ErrorValue("request failed")} :
        /\ chatError' = Some(err)
        /\ pc' = OnChatRejected(err).pc
        /\ thrown' = OnChatRejected(err).thrown
    /\ UNCHANGED <<processVars, inputVars, contextVars, round, messages,
                   allToolCalls, finalReply, response, toolResults, pending,
                   chatCalls, dispatchLog, executed, sent, varied, hostVars>>

\* client.chat finds no API key (part_010 lines 73-74 and 171-172): it
\* rejects before it builds or sends a request.
ChatMissingKey ==
    /\ pc = "chat"
    /\ MissingKey(provider, configKey, env)
    /\ chatError' = Some(MissingKeyError(provider))
    /\ pc' = OnChatRejected(MissingKeyError(provider)).pc
    /\ thrown' = OnChatRejected(MissingKeyError(provider)).thrown
    /\ UNCHANGED <<processVars, inputVars, contextVars, round, messages,
                   allToolCalls, finalReply, response, toolResults, pending,
                   chatCalls, dispatchLog, executed, sent, requests, wire, varied,
                   hostVars>>

\* The promise of a tool's execute settles: dispatchToolCall returns its
\* result (or the result made of the failure) and the run resumes.
ExecuteSettles ==
    /\ pc = "tool"
    /\ \E p \in pending, o \in Settlements(RunErrors), b \in SyncBehaviours(RunErrors) :
        /\ p.st = "executing"
        /\ Affordable(SettleCost(o))
        /\ Resume(p, DispatchSettle(p, o), b, SettleCost(o),
                  Append(dispatchLog, LogEntry(round, Settled(p, o))))
    /\ UNCHANGED <<processVars, inputVars, systemPrompt, catalogue, response,
                   chatError, requests, wire, hostVars>>

\* dispatchToolCall had its result without waiting for a tool (the name is
\* unknown, or execute threw synchronously): the run resumes.
DispatchResumes ==
    /\ pc = "tool"
    /\ \E p \in pending, b \in SyncBehaviours(RunErrors) :
        /\ p.st = "settled"
        /\ Resume(p, p.outcome, b, 0, dispatchLog)
    /\ UNCHANGED <<processVars, inputVars, systemPrompt, catalogue, response,
                   chatError, requests, wire, hostVars>>

\* The response of a provider: Anthropic's is a list of content blocks,
\* OpenAI's a message with a content (or null) and tool_calls.
WireResponse(blocks, content, tool_calls) ==
    [blocks |-> blocks, content |-> content, tool_calls |-> tool_calls]

\* No response has been received.
TripIdle ==
    [pc |-> "idle", provider |-> "", response |-> WireResponse(<< >>, None, << >>),
     parsed |-> [text |-> None, toolCalls |-> None],
     stored |-> None, resent |-> None]

\* runCommandWithTimeout has not been called.
ExecIdle ==
    [pc |-> "idle", stdout |-> EmptyText, stderr |-> EmptyText, settled |-> FALSE,
     timer |-> "none", killed |-> FALSE, closed |-> FALSE, outcome |-> None,
     settlements |-> 0, events |-> << >>]

\* The demo page after its script has run (demo/agent.js lines 563-619).
UiIdle ==
    [isProcessing |-> FALSE, sendBtnDisabled |-> FALSE, chatInput |-> "",
     apiKeyInput |-> "", chatMessages |-> << >>, thinkingMsg |-> FALSE,
     inFlight |-> 0, invocations |-> 0]

\* The listener is installed and has received nothing.
HandlerIdle == [calls |-> << >>, responses |-> << >>]

\* runInteractiveChat has not been called.
ReplIdle ==
    [pc |-> "idle", dryRun |-> FALSE, rl |-> "none", output |-> << >>, lines |-> 0]

\* No browser action has been executed: runningInstance is undefined
\* (browser/controller.ts line 12), no controller has been constructed and
\* no browser has been started.  0 stands for undefined.
BrowserToolIdle ==
    [runningInstance |-> 0, controllers |-> << >>, browsers |-> << >>,
     executions |-> << >>]

\* No runAgent invocation of the concurrent runs has started: the registry
\* is empty (tool-registry.ts line 60), nothing is registered, and no
\* conversation or audit-trail array has been allocated.
PairIdle ==
    [tools |-> << >>, registered |-> FALSE, conversations |-> << >>,
     trails |-> << >>, runs |-> << >>]

\* No other component of the program has done anything.
HostIdle ==
    /\ trip = TripIdle
    /\ exec = ExecIdle
    /\ ui = UiIdle
    /\ handler = HandlerIdle
    /\ repl = ReplIdle
    /\ browserTool = BrowserToolIdle
    /\ pair = PairIdle

\* The state before runAgent is called; spent is what is left out of the
\* budget of the exploration.
InitWith(spent) ==
    /\ tools = << >>
    /\ registered = FALSE
    /\ regLog = << >>
    /\ runs = 0
    /\ pc = "idle"
    /\ message = EmptyText
    /\ provider = ""
    /\ configKey = None
    /\ env = {}
    /\ dryRun = FALSE
    /\ round = 0
    /\ messages = << >>
    /\ allToolCalls = << >>
    /\ finalReply = EmptyText
    /\ response = [text |-> None, toolCalls |-> None]
    /\ toolResults = << >>
    /\ pending = {}
    /\ thrown = None
    /\ chatError = None
    /\ chatCalls = 0
    /\ dispatchLog = << >>
    /\ executed = << >>
    /\ sent = << >>
    /\ requests = 0
    /\ wire = << >>
    /\ systemPrompt = EmptyText
    /\ catalogue = << >>
    /\ sentWith = None
    /\ HostIdle
    /\ varied = spent

Init == InitWith(0)

Next ==
    \/ RunAgent
    \/ ChatResolves
    \/ ChatRejects
    \/ ChatMissingKey
    \/ ExecuteSettles
    \/ DispatchResumes

Spec == Init /\ [][Next]_vars

\* Every promise the run awaits settles: the model answers or fails, a
\* tool's promise resolves or rejects.
FairSpec == InitWith(MaxVaried - MaxVariedLive) /\ [][Next]_vars /\ WF_vars(Next)

(***************************************************************************)
(* dispatchToolCall on its own: a caller invokes it with any name and any  *)
(* input, on the empty registry or after registerBuiltinTools; several     *)
(* invocations may be in flight.                                           *)
(***************************************************************************)
runVars == <<pc, inputVars, round, messages, allToolCalls, finalReply, response,
             toolResults, thrown, chatError, chatCalls, sent, requests, wire,
             contextVars, varied>>

DispatchInit ==
    /\ registered \in BOOLEAN
    /\ tools = IF registered THEN registerBuiltinTools(<< >>, FALSE) ELSE << >>
    /\ regLog = IF registered THEN RegisterCalls(FALSE) ELSE << >>
    /\ runs = 0
    /\ pc = "idle"
    /\ message = EmptyText
    /\ provider = ""
    /\ configKey = None
    /\ env = {}
    /\ dryRun = FALSE
    /\ round = 0
    /\ messages = << >>
    /\ allToolCalls = << >>
    /\ finalReply = EmptyText
    /\ response = [text |-> None, toolCalls |-> None]
    /\ toolResults = << >>
    /\ pending = {}
    /\ thrown = None
    /\ chatError = None
    /\ chatCalls = 0
    /\ dispatchLog = << >>
    /\ executed = << >>
    /\ sent = << >>
    /\ requests = 0
    /\ wire = << >>
    /\ systemPrompt = EmptyText
    /\ catalogue = << >>
    /\ sentWith = None
    /\ HostIdle
    /\ varied = 0

\* dispatchToolCall(name, input) is called: lines 90-101.
DirectDispatch ==
    /\ Len(dispatchLog) + Cardinality(pending) < MaxDispatches
    /\ \E name \in SampleNames, input \in AnyInputs, b \in SyncBehaviours(SampleErrors) :
        LET call == [id |-> "", name |-> name, input |-> input]
            p == DispatchStart(tools, Len(dispatchLog) + Cardinality(pending) + 1,
                               call, b)
        IN  /\ p.how = "unknown" => b = ReturnsPromise
            /\ pending' = IF p.st = "executing" THEN pending \cup {p} ELSE pending
            /\ dispatchLog' = IF p.st = "settled"
                               THEN Append(dispatchLog, LogEntry(0, p))
                               ELSE dispatchLog
            /\ executed' = executed \o Invocations(tools, <<call>>, {1}, 1)
    /\ UNCHANGED <<processVars, runVars, hostVars>>

\* The promise of execute settles: lines 101-109.
DirectSettles ==
    /\ \E p \in pending, o \in Settlements(SampleErrors) :
        /\ pending' = pending \ {p}
        /\ dispatchLog' = Append(dispatchLog, LogEntry(0, Settled(p, o)))
    /\ UNCHANGED <<processVars, executed, runVars, hostVars>>

DispatchNext ==
    \/ DirectDispatch
    \/ DirectSettles

DispatchSpec == DispatchInit /\ [][DispatchNext]_vars


(***************************************************************************)
(* Properties.                                                             *)
(***************************************************************************)
Contains(text, s) == \E i \in 1..Len(text) : text[i] = s

IsRegistered(name) == \E i \in 1..Len(tools) : tools[i].name = name

\* Every dispatch that has settled, in DispatchSpec and in Spec.
SettledDispatches == {dispatchLog[i] : i \in 1..Len(dispatchLog)}

IsToolResult(r) ==
    /\ r.content.type \in {"string", "object"}
    /\ Len(r.details) <= 1

\* C1: dispatchToolCall never throws or rejects: whatever the name, the
\* input and the behaviour of execute, every invocation that settles
\* resolves with a Tool Result.
DispatchNeverThrows ==
    \A e \in SettledDispatches :
        /\ e.outcome.kind = "result"
        /\ IsToolResult(e.outcome.result)

\* C1, its case: an execute that threw synchronously on a null input and
\* one whose promise rejected on an undefined input have both settled.
DispatchSurvivedFailures ==
    \E e1, e2 \in SettledDispatches :
        /\ e1.how = "threw" /\ e1.call.input = NullInput
        /\ e2.how = "rejected" /\ e2.call.input = UndefinedInput

\* The number of invocations of execute that the dispatches seen so far
\* account for.
RanCount ==
    Cardinality({i \in 1..Len(dispatchLog) : dispatchLog[i].how # "unknown"})
    + Cardinality({p \in pending : p.how # "unknown" /\ p.st = "executing"})

\* C9: a dispatch of a name that is not in the registry resolves with a
\* result whose details.error is true and whose content contains the name,
\* and invokes no execute.
UnknownNameIsReported ==
    /\ \A e \in SettledDispatches :
         ~IsRegistered(e.call.name) =>
            /\ e.outcome.kind = "result"
            /\ IsSome(e.outcome.result.details)
            /\ Get(e.outcome.result.details).error = TRUE
            /\ e.outcome.result.content.type = "string"
            /\ Contains(e.outcome.result.content.text, e.call.name)
            /\ e.how = "unknown"
    /\ \A p \in pending : p.st = "executing" => IsRegistered(p.call.name)
    /\ \A i \in 1..Len(executed) : IsRegistered(executed[i].name)
    /\ Len(executed) = RanCount

\* C9, its case: with the built-in tools registered, a dispatch of "bogus"
\* has settled beside a dispatch of a registered name.
UnknownNameDispatched ==
    /\ tools # << >>
    /\ \E e1, e2 \in SettledDispatches :
        /\ e1.call.name = "bogus"
        /\ e2.call.name = "file_read"

\* C10: when execute throws or its promise rejects, the dispatch resolves
\* with a result whose content contains the failure message (the message
\* of an Error, the string form of any other value) and whose
\* details.error is true.
ExecuteFailureIsReported ==
    \A e \in SettledDispatches :
        e.how \in {"threw", "rejected"} =>
            /\ e.outcome.kind = "result"
            /\ e.outcome.result.content.type = "string"
            /\ e.err = ErrorValue("boom") =>
                  Contains(e.outcome.result.content.text, "boom")
            /\ e.err = PrimitiveValue(42) =>
                  Contains(e.outcome.result.content.text, "42")
            /\ IsSome(e.outcome.result.details)
            /\ Get(e.outcome.result.details).error = TRUE

\* C10, its case: a synchronous throw of a value that is no Error and a
\* rejection with an Error have both been reported.
ExecuteFailuresDispatched ==
    \E e1, e2 \in SettledDispatches :
        /\ e1.how = "threw" /\ e1.err = PrimitiveValue(42)
        /\ e2.how = "rejected" /\ e2.err = ErrorValue("boom")


(***************************************************************************)
(* Properties of a run.                                                    *)
(***************************************************************************)
\* The call whose result the run receives next.
ReceivedIdx == Len(toolResults) + 1

IsFailure(how) == how \in {"threw", "rejected"}

\* The step in which the run receives the outcome of a dispatch whose
\* execute threw or rejected.
FailureReceived ==
    /\ pc = "tool"
    /\ (allToolCalls' # allToolCalls \/ pc' = "threw")
    /\ \E i \in 1..Len(dispatchLog') :
         /\ dispatchLog'[i].round = round
         /\ dispatchLog'[i].idx = ReceivedIdx
         /\ IsFailure(dispatchLog'[i].how)

\* What that step does: the failure is the call's recorded result; if the
\* round has more calls the next one is dispatched, otherwise the round's
\* two messages are appended and the run goes on as `after` says.
FailureAbsorbed(after) ==
    LET calls == Get(response.toolCalls) IN
    /\ pc' # "threw"
    /\ Len(allToolCalls') = Len(allToolCalls) + 1
    /\ LET r == allToolCalls'[Len(allToolCalls')].result
       IN  /\ IsSome(r.details)
           /\ Get(r.details).error = TRUE
           /\ r.content.type = "string"
           /\ Contains(r.content.text, "\" failed: ")
    /\ IF ReceivedIdx < Len(calls)
       THEN /\ pc' = "tool"
            /\ \E p \in pending' : p.idx = ReceivedIdx + 1
            /\ messages' = messages
       ELSE /\ Len(messages') = Len(messages) + 2
            /\ messages'[Len(messages')].role = "tool"
            /\ Len(Get(messages'[Len(messages')].results)) = Len(calls)
            /\ after

\* C2, as stated: a tool whose execute throws or rejects never aborts the
\* run: the failure becomes the call's result, the remaining calls of the
\* round are dispatched, the round's tool message is appended and the next
\* model call is made.
ToolFailureThenNextModelCall ==
    [][FailureReceived =>
          FailureAbsorbed(pc' = "chat" /\ chatCalls' = chatCalls + 1)]_vars

\* C2, amended: ... and the next model call is made unless the round was
\* the last one the loop allows; then the run returns without a further
\* model call.
ToolFailureNeverAborts ==
    [][FailureReceived =>
          FailureAbsorbed(IF round + 1 < MAX_TOOL_ROUNDS
                          THEN pc' = "chat" /\ chatCalls' = chatCalls + 1
                          ELSE pc' = "done" /\ chatCalls' = chatCalls)]_vars

\* C2, its case: in a completed round the first call failed, the second
\* was dispatched all the same, and the next model call has been made.
FailureThenRunWentOn ==
    /\ pc = "chat"
    /\ chatCalls = round + 1
    /\ \E e1, e2 \in SettledDispatches :
        /\ e1.round = e2.round
        /\ e1.round < round
        /\ e1.idx < e2.idx
        /\ IsFailure(e1.how)
    /\ messages[Len(messages)].role = "tool"

\* C3: every tool message immediately follows an assistant message that
\* carries tool calls, and its call-ids are that message's tool-call ids,
\* one per call and in the same order.
ToolMessagesMatchCalls ==
    \A i \in 1..Len(messages) :
        messages[i].role = "tool" =>
            /\ i > 1
            /\ messages[i - 1].role = "assistant"
            /\ IsSome(messages[i - 1].toolCalls)
            /\ IsSome(messages[i].results)
            /\ LET calls == Get(messages[i - 1].toolCalls)
                   results == Get(messages[i].results)
               IN  /\ Len(calls) > 0
                   /\ Len(results) = Len(calls)
                   /\ \A j \in 1..Len(calls) : results[j].toolCallId = calls[j].id

\* C3, its case: the conversation holds a tool message that answers an
\* assistant message with several calls.
ToolMessageForSeveralCalls ==
    \E i \in 1..Len(messages) :
        /\ messages[i].role = "tool"
        /\ Len(Get(messages[i].results)) > 1

Terminated == pc \in {"done", "threw"}

\* C4: a run makes at most 10 model calls, and when every model call and
\* every dispatch returns it terminates.
AtMostTenModelCalls ==
    /\ [](chatCalls <= 10)
    /\ [](Terminated /\ round = 10 => chatCalls = 10)
    /\ <>Terminated

\* C4, its case: the run has ended after its tenth tool-calling round.
TenRoundsDone ==
    /\ pc = "done"
    /\ round = 10
    /\ chatCalls = 10
    /\ Len(allToolCalls) >= 10

\* The reply demo/agent.js returns when the rounds are used up (there in
\* Chinese).
RoundLimitSentinel == <<"(maximum number of rounds exceeded)">>

\* C5: when the response carries tool calls in each of the 10 rounds, the
\* run returns normally and its reply is the round-limit sentinel.
RoundLimitGivesSentinel ==
    (Terminated /\ round = MAX_TOOL_ROUNDS) =>
        /\ pc = "done"
        /\ finalReply = RoundLimitSentinel

\* C6: the calls of a response are dispatched one at a time and in order:
\* at most one dispatch is in flight, it is that of the first call whose
\* result the run has not received, and the dispatches of a round settle
\* in the order of the calls.
SequentialDispatch ==
    /\ Cardinality(pending) <= 1
    /\ \A p \in pending :
        /\ pc = "tool"
        /\ p.idx = ReceivedIdx
        /\ \A k \in 1..(p.idx - 1) :
             \E e \in SettledDispatches : e.round = round /\ e.idx = k
    /\ \A i, j \in 1..Len(dispatchLog) :
        (i < j /\ dispatchLog[i].round = dispatchLog[j].round) =>
            dispatchLog[i].idx < dispatchLog[j].idx
    /\ \A i, j \in 1..Len(dispatchLog) :
        i < j => dispatchLog[i].round <= dispatchLog[j].round

\* C6, its case: the second call of a response is executing, after the
\* first has returned.
SecondCallInFlight ==
    \E p \in pending :
        /\ p.idx = 2
        /\ p.st = "executing"
        /\ Len(toolResults) = 1

\* C7: a dry run dispatches nothing and ends with its first model call,
\* whether or not the response carries tool calls; the audit trail stays
\* empty.
DryRunDispatchesNothing ==
    dryRun =>
        /\ pc \in {"chat", "done", "threw"}
        /\ chatCalls = (IF createAIClient(provider).ok THEN 1 ELSE 0)
        /\ round = 0
        /\ dispatchLog = << >>
        /\ executed = << >>
        /\ pending = {}
        /\ allToolCalls = << >>

\* C7, its case: a dry run has returned on a response that asked for two
\* tool calls.
DryRunWithCallsDone ==
    /\ dryRun
    /\ pc = "done"
    /\ HasToolCalls(response)
    /\ Len(Get(response.toolCalls)) = 2
    /\ finalReply # EmptyText

\* C8: an exception of client.chat leaves runAgent as it is: the run ends
\* with that exception, returns no result, and makes no model call and no
\* dispatch afterwards.
ChatExceptionPropagates ==
    /\ [](IsSome(chatError) => pc = "threw" /\ thrown = chatError)
    /\ [][IsSome(chatError) =>
             /\ pc' = pc
             /\ chatCalls' = chatCalls
             /\ dispatchLog' = dispatchLog
             /\ executed' = executed
             /\ pending' = pending]_vars

\* C8, its case: client.chat raised in a later round, after tools had run.
ChatFailedInLaterRound ==
    /\ IsSome(chatError)
    /\ round >= 2
    /\ Len(allToolCalls) >= 2

\* The tool message that round r appended, in the conversation msgs: the
\* seed is followed by one (assistant, tool) pair for each completed round.
ToolMessageOf(msgs, r) == msgs[2 * r + 3]

\* The entry of the unknown-name dispatch e stands in the conversation
\* msgs: the tool message of its round pairs the call's id with the
\* unknown-tool text.
UnknownReportedIn(msgs, e) ==
    /\ Len(msgs) >= 2 * e.round + 3
    /\ ToolMessageOf(msgs, e.round).role = "tool"
    /\ IsSome(ToolMessageOf(msgs, e.round).results)
    /\ Len(Get(ToolMessageOf(msgs, e.round).results)) >= e.idx
    /\ Get(ToolMessageOf(msgs, e.round).results)[e.idx]
         = [toolCallId |-> e.call.id, result |-> <<"Unknown tool: ", e.call.name>>]

\* C11: a requested tool name that is not in the registry does not abort
\* the run: once its round is complete, the round's tool message pairs the
\* call's id with the unknown-tool text; every later model call is passed a
\* conversation that holds that message; the run ends with an exception
\* only if client.chat raised it; and when the model answers without tool
\* calls the run has returned normally with that answer.
UnknownToolReachesModel ==
    \A e \in SettledDispatches :
        e.how = "unknown" =>
            /\ e.round < round => UnknownReportedIn(messages, e)
            /\ chatCalls > e.round + 1 => UnknownReportedIn(sent, e)
            /\ pc = "threw" => (IsSome(chatError) /\ thrown = chatError)
            /\ ~HasToolCalls(response) =>
                  /\ pc = "done"
                  /\ thrown = None
                  /\ finalReply = TextOrEmpty(response.text)

\* C11, its case: the second call of the first response named an unknown
\* tool, the next model call was made and answered without tool calls, and
\* the run has returned.
UnknownToolRunCompleted ==
    /\ pc = "done"
    /\ round = 1
    /\ chatCalls = 2
    /\ ~HasToolCalls(response)
    /\ \E e \in SettledDispatches :
        /\ e.how = "unknown"
        /\ e.call.name = "bogus"
        /\ e.round = 0
        /\ e.idx = 2
        /\ UnknownReportedIn(sent, e)

\* The latest model call returned a response, and it carries no tool
\* calls.
FinalResponseReceived ==
    /\ requests >= 1
    /\ chatError = None
    /\ ~HasToolCalls(response)

\* C12: when a response carries no tool calls (toolCalls absent or empty)
\* the run ends in that round: it has returned normally, nothing was
\* dispatched in the round, no further model call was made, the reply is
\* the response's text (the empty string when the text is absent), and
\* when the response was the first one the audit trail is empty.
NoToolCallsEndsRun ==
    FinalResponseReceived =>
        /\ pc = "done"
        /\ thrown = None
        /\ chatCalls = round + 1
        /\ requests = chatCalls
        /\ pending = {}
        /\ \A e \in SettledDispatches : e.round < round
        /\ finalReply = (IF IsSome(response.text) THEN Get(response.text) ELSE << >>)
        /\ round = 0 => (allToolCalls = << >> /\ executed = << >>)

\* C12, its case: the first response had an empty list of tool calls and
\* no text, and the run has returned.
EmptyCallListEndedRun ==
    /\ pc = "done"
    /\ round = 0
    /\ requests = 1
    /\ response = [text |-> None, toolCalls |-> Some(<< >>)]
    /\ finalReply = EmptyText

\* The dispatches whose result the run has received: all that have settled
\* but the one, if any, whose result is still on its way to the run.
ReceivedCount ==
    Len(dispatchLog) - Cardinality({p \in pending : p.st = "settled"})

\* C13: the audit trail lists exactly the dispatches of the run: one entry
\* for each dispatch whose result the run has received, in dispatch order
\* across the rounds, holding the name and the input of the model's call
\* and the result the dispatch resolved with; when the run has returned it
\* has one entry for every dispatch that was made, and none for a call
\* that was not dispatched.
AuditTrailIsDispatchLog ==
    /\ Len(allToolCalls) = ReceivedCount
    /\ \A i \in 1..Len(allToolCalls) :
        /\ i <= Len(dispatchLog)
        /\ allToolCalls[i].name = dispatchLog[i].call.name
        /\ allToolCalls[i].input = dispatchLog[i].call.input
        /\ dispatchLog[i].outcome.kind = "result"
        /\ allToolCalls[i].result = dispatchLog[i].outcome.result
    /\ pc = "done" =>
        /\ Len(allToolCalls) = Len(dispatchLog)
        /\ pending = {}

\* C13, its case: a run has returned after dispatches in two rounds, one
\* of them with a null input.
AuditTrailOverTwoRounds ==
    /\ pc = "done"
    /\ Len(allToolCalls) >= 2
    /\ dispatchLog[1].round # dispatchLog[Len(dispatchLog)].round
    /\ \E i \in 1..Len(allToolCalls) : allToolCalls[i].input = NullInput

\* s is an initial segment of t.
IsPrefix(s, t) == Len(s) <= Len(t) /\ SubSeq(t, 1, Len(s)) = s

\* The conversation after k completed tool rounds: the user's message,
\* then k pairs of an assistant message with tool calls and a tool message.
SeedAndPairs(msgs, k) ==
    /\ Len(msgs) = 1 + 2 * k
    /\ msgs[1].role = "user"
    /\ msgs[1].content = message
    /\ msgs[1].toolCalls = None
    /\ msgs[1].results = None
    /\ \A j \in 1..k :
        /\ msgs[2 * j].role = "assistant"
        /\ IsSome(msgs[2 * j].toolCalls)
        /\ Len(Get(msgs[2 * j].toolCalls)) > 0
        /\ msgs[2 * j + 1].role = "tool"

\* C14: the conversation of a run starts as the one user message that
\* holds the caller's message and is append-only: every step leaves the
\* messages it held in place and unmodified, and after k completed tool
\* rounds it holds 1 + 2k messages, the seed followed by k (assistant with
\* tool calls, tool) pairs.
ConversationAppendOnly ==
    /\ []((pc \in {"chat", "tool", "done"}) => SeedAndPairs(messages, round))
    /\ [][IsPrefix(messages, messages')]_vars
    /\ [][pc = "idle" /\ messages' # << >> => Len(messages') = 1]_vars

\* C14, its case: two tool rounds are complete in a run that was given a
\* message of its own, and the conversation holds five messages.
TwoRoundsInConversation ==
    /\ pc = "chat"
    /\ round = 2
    /\ message = <<"read a.txt">>
    /\ Len(messages) = 5
    /\ messages[5].role = "tool"

\* Where the id of call tc stands in the text (0 when it does not).
IdPosition(text, tc) ==
    IF \E q \in 1..Len(text) : text[q] = tc.id
    THEN CHOOSE q \in 1..Len(text) : text[q] = tc.id
    ELSE 0

\* The fragment s stands in the text between the positions lo and hi,
\* both excluded.
ContainsBetween(text, s, lo, hi) ==
    \E q \in (lo + 1)..(hi - 1) : q <= Len(text) /\ text[q] = s

\* The parameters v are shown between lo and hi: every key and every value
\* of an object, the word null otherwise.
ParamsShownBetween(text, v, lo, hi) ==
    IF v.tag = "object"
    THEN \A k \in 1..Len(v.fields) :
            /\ ContainsBetween(text, v.fields[k][1], lo, hi)
            /\ ContainsBetween(text, v.fields[k][2], lo, hi)
    ELSE ContainsBetween(text, "null", lo, hi)

\* The calls are described in the text, in their order, after position
\* `from`: the name of a call stands before its id and after the id of the
\* call before it, its parameters after its id and before the next id.
CallsDescribedInOrder(text, calls, from) ==
    \A i \in 1..Len(calls) :
        LET at == IdPosition(text, calls[i])
            before == IF i = 1 THEN from ELSE IdPosition(text, calls[i - 1])
            after == IF i = Len(calls) THEN Len(text) + 1
                     ELSE IdPosition(text, calls[i + 1])
        IN  /\ at > before
            /\ at < after
            /\ ContainsBetween(text, calls[i].name, before, at)
            /\ ParamsShownBetween(text, calls[i].input, at, after)

\* C15: the reply of a dry run whose response carries tool calls begins
\* with the response's text when there is one, and then describes every
\* requested call by its name, its id and its parameters, in the order of
\* the request.
DryRunReplyDescribesCalls ==
    (dryRun /\ pc = "done" /\ HasToolCalls(response)) =>
        LET text == IF IsSome(response.text) THEN Get(response.text) ELSE << >> IN
        /\ IsPrefix(text, finalReply)
        /\ CallsDescribedInOrder(finalReply, Get(response.toolCalls), Len(text))

\* C15, its case: a dry run has returned on a response with text and two
\* tool calls.
DryRunWithTextAndTwoCalls ==
    /\ dryRun
    /\ pc = "done"
    /\ IsSome(response.text)
    /\ HasToolCalls(response)
    /\ Len(Get(response.toolCalls)) = 2
    /\ IdPosition(finalReply, Get(response.toolCalls)[2]) > 0

(***************************************************************************)
(* The process: runAgent is called again after a run has ended, and the    *)
(* embedding program calls registerTool with definitions of its own, under *)
(* the name of a built-in tool or under a new name.                        *)
(***************************************************************************)
\* runAgent calls in one process.
MaxRuns == 2

CustomNames == {"file_read", "bogus"}

\* The definition passed by the n-th registerTool call of the process: a
\* new object each time.
CustomTool(name, n) == ToolDefinition(name, "custom" \o ToString(n))

\* registerTool(d), called by the embedding program at any moment; each
\* call spends one of the budget.
RegisterCustomTool ==
    /\ varied + 1 <= MaxVaried
    /\ varied' = varied + 1
    /\ \E name \in CustomNames :
        /\ tools' = registerTool(tools, CustomTool(name, Len(regLog) + 1))
        /\ regLog' = Append(regLog, CustomTool(name, Len(regLog) + 1))
    /\ UNCHANGED <<registered, runs, pc, inputVars, round, messages, allToolCalls,
                   finalReply, response, toolResults, thrown, chatError, chatCalls,
                   sent, requests, wire, pending, dispatchLog, executed,
                   contextVars, hostVars>>

\* A further runAgent call, after the run before it has ended.
RunAgentAgain ==
    /\ pc \in {"done", "threw"}
    /\ runs < MaxRuns
    /\ StartRun

ProcessNext ==
    \/ Next
    \/ RunAgentAgain
    \/ RegisterCustomTool

\* As in FairSpec, part of the budget is spent when the process starts.
ProcessSpec == InitWith(MaxVaried - MaxVariedLive) /\ [][ProcessNext]_vars

(***************************************************************************)
(* Properties of the registry.                                             *)
(***************************************************************************)
RegisteredNames == {regLog[i].name : i \in 1..Len(regLog)}

\* The last registerTool call made for the name.
LatestCall(name) ==
    CHOOSE i \in 1..Len(regLog) :
        /\ regLog[i].name = name
        /\ \A j \in (i + 1)..Len(regLog) : regLog[j].name # name

\* The step is registerTool(d): the registry holds d, every entry under
\* another name is what it was, and the registry has grown by one entry
\* exactly when the name was new.
RegisterToolStep ==
    LET d == regLog'[Len(regLog')] IN
    /\ \E i \in 1..Len(tools') : tools'[i] = d
    /\ \A i \in 1..Len(tools) :
         tools[i].name # d.name => \E j \in 1..Len(tools') : tools'[j] = tools[i]
    /\ Len(tools') =
         Len(tools) + (IF \E i \in 1..Len(tools) : tools[i].name = d.name THEN 0 ELSE 1)

\* C16: registerTool(d) inserts d under d.name or replaces the entry of
\* that name and leaves every other entry unchanged; the registry holds at
\* most one definition for a name, the one of the latest registerTool call
\* for it; and every invocation of execute that a dispatch makes runs the
\* definition most recently registered under the name.
RegisterToolKeepsLatest ==
    /\ [](\A i, j \in 1..Len(tools) : tools[i].name = tools[j].name => i = j)
    /\ [](/\ \A i \in 1..Len(tools) : tools[i].name \in RegisteredNames
          /\ \A n \in RegisteredNames :
               \E i \in 1..Len(tools) : tools[i] = regLog[LatestCall(n)])
    /\ [][Len(regLog') = Len(regLog) + 1 => RegisterToolStep]_vars
    /\ [][Len(executed') = Len(executed) + 1 =>
            executed'[Len(executed')].impl
              = regLog[LatestCall(executed'[Len(executed')].name)].impl]_vars

\* C16, its case: a definition registered under the name of a built-in
\* tool, after the built-in tools, has been executed by a dispatch.
CustomDefinitionExecuted ==
    /\ registered
    /\ \E i \in 1..Len(regLog) :
        /\ regLog[i].name = "file_read"
        /\ regLog[i].impl # "builtin"
        /\ \E j \in 1..(i - 1) : regLog[j] = ToolDefinition("file_read", "builtin")
        /\ \E k \in 1..Len(executed) :
             executed[k].name = "file_read" /\ executed[k].impl = regLog[i].impl

\* The first registerTool call made for the name.
FirstCall(name) ==
    CHOOSE i \in 1..Len(regLog) :
        /\ regLog[i].name = name
        /\ \A j \in 1..(i - 1) : regLog[j].name # name

\* defs holds the current definition of every registered name, once.
CurrentDefinitionsOnce(defs) ==
    /\ \A n \in RegisteredNames :
         Cardinality({i \in 1..Len(defs) : defs[i].name = n}) = 1
    /\ \A i \in 1..Len(defs) :
         /\ defs[i].name \in RegisteredNames
         /\ defs[i] = regLog[LatestCall(defs[i].name)]

\* C17, as stated: getToolDefinitions returns the current definition of
\* each registered name exactly once, ordered by the registerTool calls
\* that produced the definitions it returns.
DefinitionsInOrderOfProducingCalls ==
    /\ CurrentDefinitionsOnce(getToolDefinitions(tools))
    /\ \A i, j \in 1..Len(getToolDefinitions(tools)) :
         i < j => LatestCall(getToolDefinitions(tools)[i].name)
                    < LatestCall(getToolDefinitions(tools)[j].name)

\* C17, amended: getToolDefinitions returns the current definition of each
\* registered name exactly once, ordered by the first registerTool call
\* made for each name: a definition that replaced an earlier one stands
\* where the name was first registered.
DefinitionsInOrderOfFirstCalls ==
    /\ CurrentDefinitionsOnce(getToolDefinitions(tools))
    /\ \A i, j \in 1..Len(getToolDefinitions(tools)) :
         i < j => FirstCall(getToolDefinitions(tools)[i].name)
                    < FirstCall(getToolDefinitions(tools)[j].name)

\* C17, its case: the definition of file_read was replaced after the
\* built-in tools were registered, and the names registered after
\* file_read still follow it.
ReplacedDefinitionKeepsPlace ==
    /\ Len(getToolDefinitions(tools)) = 7
    /\ getToolDefinitions(tools)[5].name = "file_read"
    /\ getToolDefinitions(tools)[5].impl # "builtin"
    /\ LatestCall("file_read") = 8

\* How many registerTool calls were made with the definition d.
TimesRegistered(d) == Cardinality({i \in 1..Len(regLog) : regLog[i] = d})

\* C18: registerBuiltinTools is idempotent: a runAgent call made when the
\* built-in tools are registered leaves the registry as it is (names,
\* definitions and order) and makes no registerTool call, so no factory is
\* invoked again; however many runs the process makes, each built-in tool
\* is registered once.
RegisterBuiltinToolsOnce ==
    /\ [][(registered /\ runs' = runs + 1) =>
            (tools' = tools /\ regLog' = regLog /\ registered')]_vars
    /\ [](\A i \in 1..Len(BuiltinTools) :
            /\ TimesRegistered(BuiltinTools[i]) <= 1
            /\ runs >= 1 => TimesRegistered(BuiltinTools[i]) = 1)
    /\ [](runs >= 1 => registered)

\* C18, its case: a second run has started in a process in which the
\* definition of file_read was replaced after the first registration.
SecondRunAfterReplacement ==
    /\ runs = 2
    /\ pc = "chat"
    /\ Len(regLog) = 8
    /\ regLog[8].name = "file_read"
    /\ tools[5] = regLog[8]

(***************************************************************************)
(* Properties of the configuration.                                        *)
(***************************************************************************)
NothingDispatched ==
    /\ dispatchLog = << >>
    /\ executed = << >>
    /\ pending = {}
    /\ allToolCalls = << >>

\* C19: a run whose provider identifier is not a supported one ends at
\* once with the configuration error of createAIClient, which names the
\* identifier: no model call is made and no tool is dispatched.
UnknownProviderAborts ==
    (pc # "idle" /\ provider \notin {"anthropic", "openai"}) =>
        /\ pc = "threw"
        /\ IsSome(thrown)
        /\ Get(thrown).isError
        /\ provider = "copilot" =>
             Get(thrown).message
               = "Unknown AI provider: copilot. Supported: anthropic, openai"
        /\ chatCalls = 0
        /\ requests = 0
        /\ messages = << >>
        /\ NothingDispatched

\* C19, its case: a run was started with the provider "copilot" and has
\* ended with an exception.
UnknownProviderRunEnded ==
    /\ runs = 1
    /\ provider = "copilot"
    /\ pc = "threw"
    /\ chatError = None

\* A run is under way or has ended with a supported provider whose
\* credential is missing: no API key in the configuration and none in the
\* environment variable of the provider.
CredentialMissing ==
    /\ pc # "idle"
    /\ provider \in {"anthropic", "openai"}
    /\ configKey = None
    /\ (provider = "anthropic" => "ANTHROPIC_API_KEY" \notin env)
    /\ (provider = "openai" => "OPENAI_API_KEY" \notin env)

MissingCredentialError ==
    /\ IsSome(thrown)
    /\ Get(thrown).isError
    /\ Get(thrown).message =
         (IF provider = "anthropic" THEN "Missing ANTHROPIC_API_KEY"
          ELSE "Missing OPENAI_API_KEY")

\* C20, as stated: when the credential is missing the run aborts with a
\* missing-credential error before any round executes: no round of the
\* decision loop is entered (client.chat is not called), no provider
\* request is sent and no tool is dispatched.
MissingCredentialBeforeAnyRound ==
    (CredentialMissing /\ pc = "threw") =>
        /\ MissingCredentialError
        /\ chatCalls = 0
        /\ requests = 0
        /\ NothingDispatched

\* C20, amended: when the credential is missing the run aborts with a
\* missing-credential error that the first client.chat call raises, in the
\* first round of the decision loop: no provider request is sent, no tool
\* is dispatched and no further round is entered.
MissingCredentialAbortsFirstCall ==
    /\ [](CredentialMissing =>
            /\ pc \in {"chat", "threw"}
            /\ round = 0
            /\ chatCalls = 1
            /\ requests = 0
            /\ Len(messages) = 1
            /\ NothingDispatched
            /\ pc = "threw" => (MissingCredentialError /\ chatError = thrown))
    /\ [][(CredentialMissing /\ pc = "chat") => pc' = "threw"]_vars

\* C20, its case: a run with the provider "openai", no key in the
\* configuration and an environment that holds only the key of the other
\* provider has ended with the missing-credential error.
MissingCredentialRunEnded ==
    /\ provider = "openai"
    /\ configKey = None
    /\ env = {"ANTHROPIC_API_KEY"}
    /\ pc = "threw"
    /\ IsSome(chatError)
    /\ requests = 0

(***************************************************************************)
(* Properties of the order of a round's steps.                             *)
(***************************************************************************)
\* The conversation holds the assistant message of the response the run is
\* working on.
AssistantMessageAppended ==
    \E i \in 1..Len(messages) :
        /\ i = 2 * round + 2
        /\ messages[i] = AssistantMessage(TextOrEmpty(response.text),
                                          Get(response.toolCalls))

\* C26: in a round whose response carries tool calls, the assistant message
\* of the response is in the conversation from the moment the first of the
\* round's tool calls is dispatched, that is, whenever the run is at its
\* dispatches.
AssistantMessageBeforeDispatch ==
    (pc = "tool" /\ pending # {}) => AssistantMessageAppended

\* The dispatches of round r the log holds.
DispatchesOfRound(log, r) == Cardinality({i \in 1..Len(log) : log[i].round = r})

\* A model call after the first of a run is made: the run leaves its
\* dispatches for client.chat.
LaterModelCall == pc = "tool" /\ pc' = "chat"

\* C27: a model call after the first is made only when every dispatch of
\* the round before it has returned and the round's tool message is the
\* last message of the conversation; it receives the whole conversation and
\* the system prompt and tool catalogue of the call before it; once the run
\* has ended, no model call, request, tool execution or dispatch happens
\* until runAgent is called again.
ModelCallsAndDispatchesAlternate ==
    [][ /\ LaterModelCall =>
            /\ pending' = {}
            /\ DispatchesOfRound(dispatchLog', round) = Len(Get(response.toolCalls))
            /\ Len(toolResults') = Len(Get(response.toolCalls))
            /\ Len(messages') = 1 + 2 * round'
            /\ messages'[Len(messages')] = ToolMessage(toolResults')
            /\ sent' = messages'
            /\ sentWith' = sentWith
            /\ chatCalls' = chatCalls + 1
        /\ (pc \in {"done", "threw"} /\ runs' = runs) =>
            /\ pending = {}
            /\ UNCHANGED <<pc, chatCalls, requests, executed, dispatchLog, pending,
                           messages, allToolCalls, sent, sentWith>>
      ]_vars

\* A second model call has been made after the registry was changed during
\* the run.
LaterCallAfterRegistryChange ==
    /\ pc = "chat"
    /\ round >= 1
    /\ IsSome(sentWith)
    /\ Get(sentWith).tools # getToolDefinitions(tools)
    /\ Get(sentWith).tools = catalogue

(***************************************************************************)
(* Properties of the provider formats.                                     *)
(***************************************************************************)
CallIds(calls) == [i \in 1..Len(calls) |-> calls[i].id]

\* The ids of the calls a message in a provider's format issues.
WireCallIds(w) ==
    IF w.tool_calls # << >> THEN CallIds(w.tool_calls)
    ELSE CallIds(SelectSeq(w.blocks, LAMBDA b : b.type = "tool_use"))

\* In w, the message after position a is one user-role message whose
\* content is the tool_result blocks of the pairs, in order.
AnthropicResultsAfter(w, a, results) ==
    /\ a + 1 <= Len(w)
    /\ w[a + 1].role = "user"
    /\ w[a + 1].content = None
    /\ Len(w[a + 1].blocks) = Len(results)
    /\ \A k \in 1..Len(results) :
        /\ w[a + 1].blocks[k].type = "tool_result"
        /\ w[a + 1].blocks[k].id = results[k].toolCallId
        /\ w[a + 1].blocks[k].text = results[k].result

\* In w, the messages after position a are the tool-role messages of the
\* pairs, in order, and no further tool-role message follows them.
OpenAIResultsAfter(w, a, results) ==
    /\ a + Len(results) <= Len(w)
    /\ \A k \in 1..Len(results) :
        /\ w[a + k].role = "tool"
        /\ w[a + k].tool_call_id = results[k].toolCallId
        /\ w[a + k].content = Some(results[k].result)
    /\ a + Len(results) < Len(w) => w[a + Len(results) + 1].role # "tool"

\* The number of (call-id, result) pairs w carries.
RECURSIVE WirePairCount(_, _)
WirePairCount(w, n) ==
    IF n = 0 THEN 0
    ELSE WirePairCount(w, n - 1)
         + (IF w[n].role = "tool" THEN 1 ELSE 0)
         + Len(SelectSeq(w[n].blocks, LAMBDA b : b.type = "tool_result"))

RECURSIVE PairCount(_, _)
PairCount(msgs, n) ==
    IF n = 0 THEN 0
    ELSE PairCount(msgs, n - 1)
         + (IF IsSome(msgs[n].results) THEN Len(Get(msgs[n].results)) ELSE 0)

\* The latest request has been built from the conversation `sent`.
RequestBuilt == requests > 0 /\ pc # "chat"

\* C23: in the request built from a conversation, each tool message's
\* pairs (id_1, r_1) ... (id_n, r_n) appear in the same order directly after
\* the message that issues the calls of the round, as one user-role message
\* of n tool_result blocks for Anthropic and as n consecutive tool-role
\* messages for OpenAI; the request carries no other pair.
ToolMessageTranslated ==
    RequestBuilt =>
        /\ WirePairCount(wire, Len(wire)) = PairCount(sent, Len(sent))
        /\ \A i \in 2..Len(sent) :
            sent[i].role = "tool" =>
                \E a \in 1..Len(wire) :
                    /\ wire[a].role = "assistant"
                    /\ WireCallIds(wire[a]) = CallIds(Get(sent[i - 1].toolCalls))
                    /\ IF provider = "openai"
                       THEN OpenAIResultsAfter(wire, a, Get(sent[i].results))
                       ELSE AnthropicResultsAfter(wire, a, Get(sent[i].results))

\* A request to OpenAI carried a tool message of two pairs, and one to
\* Anthropic did.
TwoPairsSentTo(p) ==
    /\ RequestBuilt
    /\ provider = p
    /\ \E i \in 1..Len(sent) : IsSome(sent[i].results) /\ Len(Get(sent[i].results)) = 2

TwoPairsSentToOpenAI == TwoPairsSentTo("openai")

(***************************************************************************)
(* An assistant turn on its way from the provider into the conversation    *)
(* and back to the provider with the next request (ai-client.ts and        *)
(* agent-core.ts lines 146-150).                                           *)
(***************************************************************************)
\* Content blocks in a response.
MaxBlocks == 3

\* `.map((b) => b.text).join("")` over the text blocks.
RECURSIVE JoinTexts(_)
JoinTexts(blocks) ==
    IF Len(blocks) = 0 THEN EmptyText
    ELSE (IF blocks[1].type = "text" THEN blocks[1].text ELSE EmptyText)
         \o JoinTexts(Tail(blocks))

\* part_010 lines 130-151: what Anthropic's chat() returns.
ParseAnthropic(resp) ==
    LET text == JoinTexts(resp.blocks)
        uses == SelectSeq(resp.blocks, LAMBDA b : b.type = "tool_use")
        toolCalls == [i \in 1..Len(uses) |->
                        [id |-> uses[i].id, name |-> uses[i].name, input |-> uses[i].input]]
    IN  [text |-> IF text # EmptyText THEN Some(text) ELSE None,
         toolCalls |-> IF Len(toolCalls) > 0 THEN Some(toolCalls) ELSE None]

\* JSON.parse of the fields of an object whose values are strings, white
\* space already skipped.
RECURSIVE JSONParseFields(_)
JSONParseFields(fs) ==
    IF Len(fs) < 5 THEN << >>
    ELSE << <<fs[2], fs[4]>> >>
         \o JSONParseFields(SubSeq(fs, IF Len(fs) > 5 /\ fs[6] = "," THEN 7 ELSE 6, Len(fs)))

\* JSON.parse of `null` or of such an object.
JSONParse(text) ==
    LET t == SelectSeq(text, LAMBDA f : f # " ")
    IN  IF t = <<"null">> THEN NullInput
        ELSE Obj(JSONParseFields(SubSeq(t, 2, Len(t) - 1)))

\* part_010 lines 228-244: what OpenAI's chat() returns.
ParseOpenAI(resp) ==
    LET toolCalls == [i \in 1..Len(resp.tool_calls) |->
                        [id |-> resp.tool_calls[i].id, name |-> resp.tool_calls[i].name,
                         input |-> JSONParse(resp.tool_calls[i].arguments)]]
    IN  [text |-> resp.content,
         toolCalls |-> IF Len(toolCalls) > 0 THEN Some(toolCalls) ELSE None]

\* What the providers answer with.
SampleBlocks ==
    { TextBlock(<<"let me look">>), TextBlock(<<"one moment">>),
      ToolUseBlock([id |-> "toolu_1", name |-> "file_read", input |-> PlainInput]),
      ToolUseBlock([id |-> "toolu_2", name |-> "list_dir", input |-> NullInput]) }

AnthropicResponses ==
    { WireResponse(bs, None, << >>) :
        bs \in { b \in UNION {[1..k -> SampleBlocks] : k \in 0..MaxBlocks} :
                   \A i, j \in 1..Len(b) :
                       (i # j /\ b[i].type = "tool_use") => b[i] # b[j] } }

SampleArguments ==
    { JSONStringify(PlainInput), JSONStringify(NullInput), <<"{", "}">>,
      <<"{", " ", "\"", "filePath", "\":\"", "a.txt", "\"", " ", "}">> }

OpenAIResponses ==
    { WireResponse(<< >>, content, calls) :
        content \in {None, Some(EmptyText), Some(<<"let me look">>)},
        calls \in {<< >>}
                  \cup { << [id |-> "call_a", type |-> "function", name |-> "file_read",
                             arguments |-> a] >> : a \in SampleArguments }
                  \cup { << [id |-> "call_a", type |-> "function", name |-> "file_read",
                             arguments |-> a],
                            [id |-> "call_b", type |-> "function", name |-> "list_dir",
                             arguments |-> b] >> : a, b \in SampleArguments } }

\* The provider's response arrives.
ProviderResponds ==
    /\ trip.pc = "idle"
    /\ \E p \in SupportedProviders :
        \E resp \in (IF p = "openai" THEN OpenAIResponses ELSE AnthropicResponses) :
            trip' = [trip EXCEPT !.pc = "received", !.provider = p, !.response = resp]
    /\ UNCHANGED outsideTrip

\* chat() returns the response in the common format.
ChatReturns ==
    /\ trip.pc = "received"
    /\ trip' = [trip EXCEPT !.pc = "parsed",
                            !.parsed = IF trip.provider = "openai"
                                       THEN ParseOpenAI(trip.response)
                                       ELSE ParseAnthropic(trip.response)]
    /\ UNCHANGED outsideTrip

\* agent-core.ts lines 107-110 and 146-150: a response without tool calls
\* ends the run, one with tool calls is pushed as an assistant message.
RoundAppends ==
    /\ trip.pc = "parsed"
    /\ trip' = IF HasToolCalls(trip.parsed)
               THEN [trip EXCEPT !.pc = "stored",
                                 !.stored = Some(AssistantMessage(
                                                TextOrEmpty(trip.parsed.text),
                                                Get(trip.parsed.toolCalls)))]
               ELSE [trip EXCEPT !.pc = "final"]
    /\ UNCHANGED outsideTrip

\* The next chat() call builds the provider's form of the stored message.
NextRequestBuilt ==
    /\ trip.pc = "stored"
    /\ trip' = [trip EXCEPT !.pc = "resent",
                            !.resent = IF trip.provider = "openai"
                                       THEN Some(OpenAIMessage(Get(trip.stored))[1])
                                       ELSE Some(AnthropicMessage(Get(trip.stored)))]
    /\ UNCHANGED outsideTrip

TripNext ==
    \/ ProviderResponds
    \/ ChatReturns
    \/ RoundAppends
    \/ NextRequestBuilt

TripSpec == Init /\ [][TripNext]_vars

\* The blocks with each run of adjacent text blocks made one block.
RECURSIVE MergeTexts(_)
MergeTexts(blocks) ==
    IF Len(blocks) < 2 THEN blocks
    ELSE IF blocks[1].type = "text" /\ blocks[2].type = "text"
    THEN MergeTexts(<<TextBlock(blocks[1].text \o blocks[2].text)>>
                    \o SubSeq(blocks, 3, Len(blocks)))
    ELSE <<blocks[1]>> \o MergeTexts(Tail(blocks))

\* The response carried both text and tool calls.
CarriedTextAndCalls(resp) ==
    \/ /\ \E i \in 1..Len(resp.blocks) : resp.blocks[i].type = "text"
       /\ \E i \in 1..Len(resp.blocks) : resp.blocks[i].type = "tool_use"
    \/ /\ IsSome(resp.content)
       /\ Get(resp.content) # EmptyText
       /\ resp.tool_calls # << >>

\* C24: when a response that carried both text and tool calls has been
\* parsed, stored in the conversation and built again for the next request,
\* the assistant message of the request holds the same text and the same
\* tool calls (id, name, input), in the order the provider emitted the
\* blocks.
AssistantTurnRoundTrip ==
    (trip.pc = "resent" /\ CarriedTextAndCalls(trip.response)) =>
        LET sentBack == Get(trip.resent) IN
        /\ sentBack.role = "assistant"
        /\ IF trip.provider = "openai"
           THEN /\ sentBack.content = trip.response.content
                /\ Len(sentBack.tool_calls) = Len(trip.response.tool_calls)
                /\ \A i \in 1..Len(sentBack.tool_calls) :
                    /\ sentBack.tool_calls[i].id = trip.response.tool_calls[i].id
                    /\ sentBack.tool_calls[i].name = trip.response.tool_calls[i].name
                    /\ JSONParse(sentBack.tool_calls[i].arguments)
                         = JSONParse(trip.response.tool_calls[i].arguments)
           ELSE sentBack.blocks = MergeTexts(trip.response.blocks)

(***************************************************************************)
(* runCommandWithTimeout (src/process/exec.ts): the child's events and the *)
(* timeout arrive in any order.  exec.outcome is the state of the promise  *)
(* (a settled promise ignores a further resolve or reject),                *)
(* exec.settlements counts the calls of resolve and reject, exec.events is *)
(* the history of the events delivered.                                    *)
(***************************************************************************)
\* Events of each kind (data on a stream, error) in one call.
MaxEvents == 2

SpawnErrors == {ErrorValue("spawn ENOENT"), ErrorValue("kill EPERM")}
ExitStatuses ==
    { [code |-> Some(0), signal |-> None], [code |-> Some(1), signal |-> None],
      [code |-> None, signal |-> Some("SIGKILL")] }

SpawnResult(stdout, stderr, status, killed) ==
    [kind |-> "resolve", stdout |-> stdout, stderr |-> stderr, code |-> status.code,
     signal |-> status.signal, killed |-> killed, err |-> ErrorValue("")]
SpawnFailure(err) ==
    [kind |-> "reject", stdout |-> EmptyText, stderr |-> EmptyText, code |-> None,
     signal |-> None, killed |-> FALSE, err |-> err]

Occurrences(events, kind) ==
    Cardinality({i \in 1..Len(events) : events[i].kind = kind})

\* A bug: the handlers do not look at the flag.
AlreadySettledUnchecked(x) == FALSE

\* lines 140 and 148: `if (settled) return;`
AlreadySettled(x) == x.settled

\* resolve or reject is called with o: lines 141-143 and 149-151.
Settle(x, o) ==
    [x EXCEPT !.settled = TRUE,
              !.timer = IF x.timer = "armed" THEN "cleared" ELSE x.timer,
              !.outcome = IF IsSome(x.outcome) THEN x.outcome ELSE Some(o),
              !.settlements = x.settlements + 1]

\* lines 112-136: the child is spawned, the timer set, the handlers
\* installed.
RunCommand ==
    /\ exec.pc = "idle"
    /\ exec' = [exec EXCEPT !.pc = "running", !.timer = "armed"]
    /\ UNCHANGED outsideExec

\* lines 135-136: a chunk arrives on stdout or on stderr.
ChildData ==
    /\ exec.pc = "running"
    /\ ~exec.closed
    /\ \E stream \in {"stdout", "stderr"} :
        /\ Occurrences(exec.events, stream) < MaxEvents
        /\ exec' = [exec EXCEPT
                      !.stdout = IF stream = "stdout" THEN @ \o <<"out">> ELSE @,
                      !.stderr = IF stream = "stderr" THEN @ \o <<"err">> ELSE @,
                      !.events = Append(@, [kind |-> stream, outcome |-> None])]
    /\ UNCHANGED outsideExec

\* lines 124-126: the timer fires and kills the child; child.killed tells
\* whether the signal was sent.
TimerFires ==
    /\ exec.pc = "running"
    /\ exec.timer = "armed"
    /\ \E sentSignal \in BOOLEAN :
        exec' = [exec EXCEPT !.timer = "fired",
                             !.killed = sentSignal /\ ~exec.closed,
                             !.events = Append(@, [kind |-> "timeout", outcome |-> None])]
    /\ UNCHANGED outsideExec

\* lines 139-144: the child emits `error`.
ChildError ==
    /\ exec.pc = "running"
    /\ Occurrences(exec.events, "error") < MaxEvents
    /\ \E err \in SpawnErrors :
        LET x == [exec EXCEPT
                    !.events = Append(@, [kind |-> "error",
                                          outcome |-> Some(SpawnFailure(err))])]
        IN  exec' = IF AlreadySettled(exec) THEN x ELSE Settle(x, SpawnFailure(err))
    /\ UNCHANGED outsideExec

\* lines 147-152: the child emits `close`, once.
ChildClose ==
    /\ exec.pc = "running"
    /\ ~exec.closed
    /\ \E status \in ExitStatuses :
        LET result == SpawnResult(exec.stdout, exec.stderr, status, exec.killed)
            x == [exec EXCEPT
                    !.closed = TRUE,
                    !.events = Append(@, [kind |-> "close", outcome |-> Some(result)])]
        IN  exec' = IF AlreadySettled(exec) THEN x ELSE Settle(x, result)
    /\ UNCHANGED outsideExec

ExecNext ==
    \/ RunCommand
    \/ ChildData
    \/ TimerFires
    \/ ChildError
    \/ ChildClose

ExecSpec == Init /\ [][ExecNext]_vars

\* The error and close events delivered so far, in order.
Deciding(events) == SelectSeq(events, LAMBDA e : e.kind \in {"error", "close"})

\* C29: resolve and reject are called at most once in all; the promise is
\* pending until the first error or close event and then holds what that
\* event gave (reject for error, resolve for close), whatever comes later;
\* once it is settled the timer is not armed; the timeout by itself leaves
\* the promise pending.
SettlesOnceByFirstEvent ==
    /\ exec.settlements <= 1
    /\ exec.settled = (exec.settlements = 1)
    /\ exec.settled = IsSome(exec.outcome)
    /\ exec.settled = (Deciding(exec.events) # << >>)
    /\ exec.settled =>
        /\ exec.outcome = Deciding(exec.events)[1].outcome
        /\ exec.timer \in {"cleared", "fired"}
        /\ Get(exec.outcome).kind
             = (IF Deciding(exec.events)[1].kind = "error" THEN "reject" ELSE "resolve")
    /\ (exec.pc = "running" /\ ~exec.settled) =>
        exec.timer = (IF Occurrences(exec.events, "timeout") = 0 THEN "armed" ELSE "fired")

\* The timer has fired, the close event has settled the promise, and an
\* error event has come after it.
ErrorAfterTimeoutAndClose ==
    /\ Len(exec.events) >= 3
    /\ \E i, j, k \in 1..Len(exec.events) :
        /\ i < j /\ j < k
        /\ exec.events[i].kind = "timeout"
        /\ exec.events[j].kind = "close"
        /\ exec.events[k].kind = "error"
    /\ Deciding(exec.events)[1].kind = "close"
    /\ Get(exec.outcome).killed

(***************************************************************************)
(* The demo page (demo/agent.js, sendMessage): the user types, sendMessage *)
(* is invoked by the button, the Enter key or the voice input at any       *)
(* moment, and a run in flight returns or throws.  ui.inFlight counts the  *)
(* runAgent calls that have not settled, ui.invocations the sendMessage    *)
(* calls.                                                                  *)
(***************************************************************************)
\* sendMessage invocations.
MaxSends == 4

\* String.prototype.trim on the sample texts.
Trim(text) == IF text = "  " THEN "" ELSE text

SampleInputTexts == {"", "  ", "create a vm"}
SampleApiKeys == {"", "sk-demo"}

\* addMessage(type, text), with the thinking message shown last.
AddMessage(x, type, text) ==
    [x EXCEPT !.chatMessages = Append(@, [type |-> type, text |-> text])]

\* A bug: the flag is reset after a reply only.
StillProcessingAfterThrow(threw) == threw

\* lines 672-676, `finally`: isProcessing after the run, returned or thrown.
StillProcessing(threw) == FALSE

\* The user edits the text field or the API key field.
UserTypes ==
    /\ \E text \in SampleInputTexts, key \in SampleApiKeys :
        /\ (ui.chatInput # text \/ ui.apiKeyInput # key)
        /\ ui' = [ui EXCEPT !.chatInput = text, !.apiKeyInput = key]
    /\ UNCHANGED outsideUi

\* sendMessage, lines 621-640, up to the await.
SendMessage ==
    /\ ui.invocations < MaxSends
    /\ LET x == [ui EXCEPT !.invocations = @ + 1] IN
       ui' = IF Trim(ui.chatInput) = "" \/ ui.isProcessing THEN x
             ELSE IF Trim(ui.apiKeyInput) = ""
             THEN AddMessage(x, "assistant", "enter an API key first")
             ELSE AddMessage([x EXCEPT !.isProcessing = TRUE,
                                       !.sendBtnDisabled = TRUE,
                                       !.chatInput = "",
                                       !.thinkingMsg = FALSE,
                                       !.inFlight = @ + 1],
                             "user", Trim(ui.chatInput))
    /\ UNCHANGED outsideUi

\* lines 643-646: the run reports that a round starts.
OnThinking ==
    /\ ui.inFlight > 0
    /\ ~ui.thinkingMsg
    /\ ui' = [ui EXCEPT !.thinkingMsg = TRUE]
    /\ UNCHANGED outsideUi

\* lines 667-676: the run returns or throws; err.message itself throws
\* when the thrown value is null or undefined, and `finally` runs in every
\* case.
RunSettles ==
    /\ ui.inFlight > 0
    /\ \E how \in {"reply", "error", "null"} :
        LET x == [ui EXCEPT !.thinkingMsg = FALSE,
                            !.inFlight = @ - 1,
                            !.isProcessing = StillProcessing(how # "reply"),
                            !.sendBtnDisabled = FALSE]
        IN  ui' = IF how = "reply" THEN AddMessage(x, "assistant", "done")
                  ELSE IF how = "error" THEN AddMessage(x, "assistant", "error: boom")
                  ELSE x
    /\ UNCHANGED outsideUi

UiNext ==
    \/ UserTypes
    \/ SendMessage
    \/ OnThinking
    \/ RunSettles

UiSpec == Init /\ [][UiNext]_vars

\* The user messages the panel shows: one for each run started.
RunsStarted ==
    Cardinality({i \in 1..Len(ui.chatMessages) : ui.chatMessages[i].type = "user"})

\* At most one run is in flight, and isProcessing holds exactly while one
\* is: once the run has returned or thrown the flag is down again.
OneRunInFlight ==
    /\ ui.inFlight <= 1
    /\ ui.isProcessing = (ui.inFlight = 1)
    /\ ui.sendBtnDisabled = ui.isProcessing

\* sendMessage starts a run only when the flag is down, and leaves the
\* page as it is when the flag is up.
SendWhileProcessingIgnored ==
    [][ /\ ui'.inFlight > ui.inFlight => ~ui.isProcessing
        /\ (ui.isProcessing /\ ui'.invocations > ui.invocations) =>
              ui' = [ui EXCEPT !.invocations = @ + 1] ]_vars

\* C30: at most one run is in flight at any time and isProcessing is up
\* exactly while one is (it is down again once the run has returned or
\* thrown); a sendMessage call made while the flag is up starts no run and
\* changes nothing on the page.
AtMostOneRunInFlight == []OneRunInFlight /\ SendWhileProcessingIgnored

\* A call was ignored during a run, the run threw, and a later message
\* started a second run.
SecondRunAfterThrow ==
    /\ RunsStarted = 2
    /\ ui.invocations >= 3
    /\ ui.inFlight = 1
    /\ \E i \in 1..Len(ui.chatMessages) : ui.chatMessages[i].text = "error: boom"

(***************************************************************************)
(* The content script's listener (src/tools/web/messaging.ts,              *)
(* registerToolHandler).  handler.calls is the history of the messages     *)
(* received, each with what became of it; handler.responses is every       *)
(* sendResponse call, in order.                                            *)
(***************************************************************************)
\* Messages the listener receives.
MaxMessages == 2

\* The executors passed to registerToolHandler.
ExecutorNames == {"dom"}

\* A message of another sender has another type; "" stands for a message
\* without a type (null, undefined, a string).
SampleTypes == {"AUTOPILOT_TOOL_CALL", "PING", ""}
ToolCallMessage(type, toolName, n) ==
    [type |-> type, toolName |-> toolName, callId |-> "call_" \o ToString(n)]

ToolCallResponse(msg, result) ==
    [type |-> "AUTOPILOT_TOOL_RESULT", callId |-> msg.callId, result |-> result]

\* lines 118-125.
UnknownToolResponse(msg) ==
    ToolCallResponse(msg, ToolResult(StringContent(<<"unknown tool: ", msg.toolName>>),
                                     None))

\* lines 136-145: the sendResponse calls made when the executor's promise
\* rejects.
OnRejected(msg, err) ==
    << ToolCallResponse(msg,
          ToolResult(StringContent(<<"tool ", msg.toolName, " failed: ", ErrorMessage(err)>>),
                     Some([error |-> TRUE, toolName |-> "", message |-> ""]))) >>

\* lines 112-148: the listener runs for a message; b is what the executor
\* does when it is called.
Listener(msg, b) ==
    IF msg.type # "AUTOPILOT_TOOL_CALL"
    THEN [status |-> "ignored", returned |-> "false", responses |-> << >>]
    ELSE IF msg.toolName \notin ExecutorNames
    THEN [status |-> "unknown", returned |-> "true",
          responses |-> <<UnknownToolResponse(msg)>>]
    ELSE IF b.kind = "throw"
    THEN [status |-> "threw", returned |-> "threw", responses |-> << >>]
    ELSE [status |-> "running", returned |-> "true", responses |-> << >>]

\* chrome.runtime.onMessage delivers a message.
MessageArrives ==
    /\ Len(handler.calls) < MaxMessages
    /\ \E type \in SampleTypes, toolName \in ExecutorNames \cup {"bogus"},
          b \in SyncBehaviours(SampleErrors) :
        LET msg == ToolCallMessage(type, toolName, Len(handler.calls) + 1)
            did == Listener(msg, b)
        IN  /\ did.status # "threw" => b = ReturnsPromise
            /\ handler' = [calls |-> Append(handler.calls,
                                            [msg |-> msg, status |-> did.status,
                                             returned |-> did.returned,
                                             outcome |-> Resolves(PlainResult)]),
                           responses |-> handler.responses \o did.responses]
    /\ UNCHANGED outsideHandler

\* lines 129-145: the promise of an executor settles.
ExecutorSettles ==
    /\ \E n \in 1..Len(handler.calls), o \in Settlements(SampleErrors) :
        /\ handler.calls[n].status = "running"
        /\ handler' =
             [calls |-> [handler.calls EXCEPT
                           ![n].status = IF o.kind = "resolve" THEN "resolved"
                                         ELSE "rejected",
                           ![n].outcome = o],
              responses |-> handler.responses
                            \o (IF o.kind = "resolve"
                                THEN <<ToolCallResponse(handler.calls[n].msg, o.result)>>
                                ELSE OnRejected(handler.calls[n].msg, o.err))]
    /\ UNCHANGED outsideHandler

HandlerNext ==
    \/ MessageArrives
    \/ ExecutorSettles

HandlerSpec == Init /\ [][HandlerNext]_vars

\* The responses sent for the message c.
ResponsesTo(c) == SelectSeq(handler.responses, LAMBDA r : r.callId = c.msg.callId)

\* What the answered cases have in common: one AUTOPILOT_TOOL_RESULT with
\* the callId of the message.
AnsweredOnce(c) ==
    /\ Len(ResponsesTo(c)) = 1
    /\ ResponsesTo(c)[1].type = "AUTOPILOT_TOOL_RESULT"
    /\ c.status = "unknown" =>
          ResponsesTo(c)[1].result.content.text = <<"unknown tool: ", c.msg.toolName>>
    /\ c.status = "resolved" => ResponsesTo(c)[1].result = c.outcome.result
    /\ c.status = "rejected" =>
          /\ IsSome(ResponsesTo(c)[1].result.details)
          /\ Get(ResponsesTo(c)[1].result.details).error

\* The listener is through with the message c: no executor is running for
\* it.
Handled(c) == c.status # "running"

\* C28: every AUTOPILOT_TOOL_CALL message the listener is through with has
\* exactly one AUTOPILOT_TOOL_RESULT with its callId, and a
\* message of another type has none.
EveryToolCallAnswered ==
    \A n \in 1..Len(handler.calls) :
        LET c == handler.calls[n] IN
        Handled(c) =>
            IF c.msg.type = "AUTOPILOT_TOOL_CALL" THEN AnsweredOnce(c)
            ELSE ResponsesTo(c) = << >> /\ c.returned = "false"

\* What holds of every message: it is answered once when its executor is
\* missing or returned a promise that has settled, and not at all when it
\* is of another type, when the executor threw at the call (the listener
\* throws), or while the promise is pending.
AnsweredUnlessExecutorThrows ==
    /\ Len(handler.responses) <= Len(handler.calls)
    /\ \A n \in 1..Len(handler.calls) :
        LET c == handler.calls[n] IN
        CASE c.msg.type # "AUTOPILOT_TOOL_CALL" ->
                ResponsesTo(c) = << >> /\ c.returned = "false" /\ c.status = "ignored"
          [] c.status \in {"unknown", "resolved", "rejected"} ->
                AnsweredOnce(c) /\ c.returned = "true"
          [] c.status = "threw" -> ResponsesTo(c) = << >> /\ c.returned = "threw"
          [] OTHER -> ResponsesTo(c) = << >> /\ c.status = "running"

(***************************************************************************)
(* The interactive chat loop (cli/interactive.ts, runInteractiveChat).     *)
(* repl.output is the history of what the loop wrote and asked: a "prompt" *)
(* entry is a call of rl.question.  repl.rl is the readline interface:     *)
(* "none", "open" or "closed".                                             *)
(***************************************************************************)
\* Lines the user enters.
MaxLines == 3

SampleLines == {"", "  ", "exit", "quit", "/dry", "hello"}

Out(kind, text) == [kind |-> kind, text |-> text]

\* rl.question is called: the next prompt.
Ask(x) == [x EXCEPT !.pc = "prompt", !.output = Append(@, Out("prompt", <<"you > ">>))]

\* `finally { rl.close() }`, on the way out of the loop.
Leave(x, how) == [x EXCEPT !.pc = how, !.rl = "closed"]

\* A bug: the inner try has no catch; the exception leaves the loop.
AfterThrowLeaves(x, err) == Leave(x, "failed")

\* part_007 lines 58-60 and 32-33: the catch block prints the error, the
\* loop asks for the next input.
AfterThrow(x, err) ==
    Ask([x EXCEPT !.output = Append(@, Out("error", <<"Error: ", ErrorMessage(err)>>))])

\* lines 19-33: the interface is created and the first prompt shown.
StartChat ==
    /\ repl.pc = "idle"
    /\ repl' = Ask([repl EXCEPT !.rl = "open"])
    /\ UNCHANGED outsideRepl

\* lines 33-52: the user enters a line.
UserEnters ==
    /\ repl.pc = "prompt"
    /\ repl.lines < MaxLines
    /\ \E input \in SampleLines :
        LET trimmed == Trim(input)
            x == [repl EXCEPT !.lines = @ + 1]
        IN  repl' = IF trimmed = "" THEN Ask(x)
                    ELSE IF trimmed \in {"exit", "quit"} THEN Leave(x, "exited")
                    ELSE IF trimmed = "/dry"
                    THEN Ask([x EXCEPT !.dryRun = ~@,
                                       !.output = Append(@, Out("dry", <<"Dry-run mode">>))])
                    ELSE [x EXCEPT !.pc = "running"]
    /\ UNCHANGED outsideRepl

\* rl.question rejects (the input stream ends, the question is aborted):
\* the exception leaves the loop through `finally`.
QuestionRejects ==
    /\ repl.pc = "prompt"
    /\ repl' = Leave(repl, "failed")
    /\ UNCHANGED outsideRepl

\* lines 54-57: runAgent returns; the reply is printed and, when there
\* were tool calls, their number.
AgentReturns ==
    /\ repl.pc = "running"
    /\ \E n \in 0..1 :
        repl' = Ask([repl EXCEPT
                       !.output = @ \o <<Out("reply", <<"autopilot > ", "done">>)>>
                                    \o (IF n > 0
                                        THEN <<Out("calls", <<ToString(n), " tool call(s)">>)>>
                                        ELSE << >>)])
    /\ UNCHANGED outsideRepl

\* lines 58-60: runAgent throws.
AgentThrows ==
    /\ repl.pc = "running"
    /\ \E err \in SampleErrors \cup {MissingKeyError("anthropic")} :
        repl' = AfterThrow(repl, err)
    /\ UNCHANGED outsideRepl

ReplNext ==
    \/ StartChat
    \/ UserEnters
    \/ QuestionRejects
    \/ AgentReturns
    \/ AgentThrows

ReplSpec == Init /\ [][ReplNext]_vars

\* C25: when runAgent throws for a message, the error is printed and the
\* loop asks for the next input with the readline interface still open; the
\* interface is closed exactly when the loop has been left.
RunErrorCaughtAtMessage ==
    [][ (repl.pc = "running" /\ repl'.pc # "running"
         /\ ~(\E i \in 1..Len(repl'.output) :
                 i > Len(repl.output) /\ repl'.output[i].kind = "reply")) =>
            /\ repl'.pc = "prompt"
            /\ repl'.rl = "open"
            /\ Len(repl'.output) = Len(repl.output) + 2
            /\ repl'.output[Len(repl.output) + 1].kind = "error"
            /\ repl'.output[Len(repl.output) + 2].kind = "prompt"
      ]_vars
    /\ [](repl.rl = "closed" <=> repl.pc \in {"exited", "failed"})
    /\ [](repl.pc \in {"prompt", "running"} => repl.rl = "open")

\* Two messages in a row made runAgent throw, and the loop is asking for a
\* third input.
PromptAfterTwoErrors ==
    /\ repl.pc = "prompt"
    /\ Cardinality({i \in 1..Len(repl.output) : repl.output[i].kind = "error"}) = 2

(***************************************************************************)
(* The browser tool (tools/node/browser-tool.ts) and the controller it     *)
(* drives (browser/controller.ts).  Executions of the tool run one at a    *)
(* time between their awaits; browserTool holds the module variable        *)
(* runningInstance, every BrowserController constructed, every browser     *)
(* chromium.launch was asked for, and every execution with its position.   *)
(***************************************************************************)
\* Executions explored.
MaxExecutions == 3

\* The actions explored: one that needs a page, and the one that ends the
\* browser.  navigate always carries its url.
SampleActions == {"navigate", "close"}

\* new BrowserController(options): no browser, no context, no page.
NewController == [browser |-> 0, page |-> FALSE]

\* BrowserController.getRunning().
getRunning(x) == x.runningInstance

\* getOrCreateController(): the running controller, or a new one.  The
\* result is the state with the controller in it and the controller's index.
getOrCreateController(x) ==
    IF getRunning(x) # 0
    THEN [state |-> x, controller |-> getRunning(x)]
    ELSE [state |-> [x EXCEPT !.controllers = Append(@, NewController)],
          controller |-> Len(x.controllers) + 1]

\* controller.isRunning(): Boolean(this.browser?.isConnected()).
isRunning(x, c) ==
    /\ x.controllers[c].browser # 0
    /\ x.browsers[x.controllers[c].browser] = "connected"

\* An execution: its action, its controller, the await it is suspended at,
\* the browser it asked chromium to launch or to close, and what it returned.
Execution(action, c, at, b, content) ==
    [action |-> action, controller |-> c, pc |-> at, browser |-> b,
     content |-> content]

\* The catch block of execute: the error becomes the returned content.
ActionFailed(x, e) ==
    [x EXCEPT !.executions[e].pc = "done", !.executions[e].content = "failed"]

\* The switch of execute, up to its first await.  navigate calls
\* controller.navigate, whose ensurePage throws without a page; close calls
\* controller.close, which clears runningInstance when it is this controller
\* and awaits this.browser?.close().
Switch(x, e) ==
    LET c == x.executions[e].controller
        b == x.controllers[c].browser
    IN  IF x.executions[e].action = "navigate"
        THEN IF x.controllers[c].page
             THEN [x EXCEPT !.executions[e].pc = "goto"]
             ELSE ActionFailed(x, e)
        ELSE [x EXCEPT !.runningInstance = IF @ = c THEN 0 ELSE @,
                       !.executions[e].pc = "closing",
                       !.executions[e].browser = b]

\* execute(params) up to its first await: the controller is fetched or
\* created; when it is not running and the action is not close, launch() is
\* called and suspends at its dynamic import.
Execute ==
    /\ Len(browserTool.executions) < MaxExecutions
    /\ \E action \in SampleActions :
         LET got == getOrCreateController(browserTool)
             c == got.controller
             e == Len(browserTool.executions) + 1
             x == [got.state EXCEPT
                      !.executions = Append(@, Execution(action, c, "start", 0, ""))]
         IN  browserTool' =
                 IF ~isRunning(x, c) /\ action # "close"
                 THEN [x EXCEPT !.executions[e].pc = "import"]
                 ELSE Switch(x, e)
    /\ UNCHANGED outsideBrowserTool

\* import("playwright-core") resolves: chromium.launch is called and a
\* browser starts.
ImportResolves ==
    /\ \E e \in 1..Len(browserTool.executions) :
         /\ browserTool.executions[e].pc = "import"
         /\ browserTool' =
              [browserTool EXCEPT
                  !.browsers = Append(@, "launching"),
                  !.executions[e].pc = "launch",
                  !.executions[e].browser = Len(browserTool.browsers) + 1]
    /\ UNCHANGED outsideBrowserTool

\* playwright-core is not installed: the import rejects.
ImportRejects ==
    /\ \E e \in 1..Len(browserTool.executions) :
         /\ browserTool.executions[e].pc = "import"
         /\ browserTool' = ActionFailed(browserTool, e)
    /\ UNCHANGED outsideBrowserTool

\* chromium.launch resolves: this.browser is assigned and newContext is
\* awaited.
LaunchResolves ==
    /\ \E e \in 1..Len(browserTool.executions) :
         /\ browserTool.executions[e].pc = "launch"
         /\ browserTool' =
              [browserTool EXCEPT
                  !.browsers[browserTool.executions[e].browser] = "connected",
                  !.controllers[browserTool.executions[e].controller].browser =
                      browserTool.executions[e].browser,
                  !.executions[e].pc = "context"]
    /\ UNCHANGED outsideBrowserTool

\* chromium.launch rejects: no browser came up.
LaunchRejects ==
    /\ \E e \in 1..Len(browserTool.executions) :
         /\ browserTool.executions[e].pc = "launch"
         /\ browserTool' =
              ActionFailed([browserTool EXCEPT
                  !.browsers[browserTool.executions[e].browser] = "closed"], e)
    /\ UNCHANGED outsideBrowserTool

\* browser.newContext resolves: this.context is assigned and newPage is
\* awaited.
ContextResolves ==
    /\ \E e \in 1..Len(browserTool.executions) :
         /\ browserTool.executions[e].pc = "context"
         /\ browserTool' = [browserTool EXCEPT !.executions[e].pc = "page"]
    /\ UNCHANGED outsideBrowserTool

\* context.newPage resolves: this.page and runningInstance are assigned,
\* launch returns and execute goes on to its switch.
PageResolves ==
    /\ \E e \in 1..Len(browserTool.executions) :
         /\ browserTool.executions[e].pc = "page"
         /\ browserTool' =
              Switch([browserTool EXCEPT
                         !.controllers[browserTool.executions[e].controller].page = TRUE,
                         !.runningInstance = browserTool.executions[e].controller],
                     e)
    /\ UNCHANGED outsideBrowserTool

\* page.goto and page.title resolve: the title is returned.
NavigateResolves ==
    /\ \E e \in 1..Len(browserTool.executions) :
         /\ browserTool.executions[e].pc = "goto"
         /\ browserTool' =
              [browserTool EXCEPT !.executions[e].pc = "done",
                                  !.executions[e].content = "Navigated"]
    /\ UNCHANGED outsideBrowserTool

\* page.goto rejects (the page is gone, or the navigation timed out).
NavigateRejects ==
    /\ \E e \in 1..Len(browserTool.executions) :
         /\ browserTool.executions[e].pc = "goto"
         /\ browserTool' = ActionFailed(browserTool, e)
    /\ UNCHANGED outsideBrowserTool

\* The await of this.browser?.close() in controller.close is over (close's
\* rejection is swallowed): the browser it closed is gone, and the
\* controller's browser, context and page are cleared.
CloseResolves ==
    /\ \E e \in 1..Len(browserTool.executions) :
         /\ browserTool.executions[e].pc = "closing"
         /\ LET b == browserTool.executions[e].browser
                c == browserTool.executions[e].controller
            IN  browserTool' =
                  [browserTool EXCEPT
                      !.browsers = IF b = 0 THEN @ ELSE [@ EXCEPT ![b] = "closed"],
                      !.controllers[c] = NewController,
                      !.executions[e].pc = "done",
                      !.executions[e].content = "Browser closed"]
    /\ UNCHANGED outsideBrowserTool

BrowserToolNext ==
    \/ Execute
    \/ ImportResolves
    \/ ImportRejects
    \/ LaunchResolves
    \/ LaunchRejects
    \/ ContextResolves
    \/ PageResolves
    \/ NavigateResolves
    \/ NavigateRejects
    \/ CloseResolves

BrowserToolSpec == Init /\ [][BrowserToolNext]_vars

\* The browsers that are being launched or are running.
ActiveBrowsers ==
    {b \in 1..Len(browserTool.browsers) :
        browserTool.browsers[b] \in {"launching", "connected"}}

\* C22: across any interleaving of browser-tool executions, at most one
\* browser is being launched or running at a time.
AtMostOneBrowser == Cardinality(ActiveBrowsers) <= 1

(***************************************************************************)
(* runAgent invocations in flight together (src/core/agent-core.ts).  The  *)
(* process runs one of them at a time between their awaits (client.chat    *)
(* and dispatchToolCall).  pair holds what the process holds: the registry *)
(* and its flag, the conversation arrays and the audit-trail arrays that   *)
(* have been allocated, and the locals of every invocation, which refer to *)
(* their arrays by index.                                                  *)
(***************************************************************************)
\* The invocations in flight together.
ConcurrentRuns == 2

\* Rounds with tool calls that the model asks of the invocations together.
MaxPairRounds == 2

\* `[...]` at lines 88 and 95: an array literal makes a new array.
\* A bug: one array at module level serves every invocation.
NewArrayModuleLevel(arrays) == 1

NewArray(arrays) == Len(arrays) + 1

\* The arrays after the array ref has become value.
Store(arrays, ref, value) ==
    IF ref > Len(arrays) THEN Append(arrays, value)
    ELSE [arrays EXCEPT ![ref] = value]

NoResponse == [text |-> None, toolCalls |-> None]

\* The locals of an invocation: message, round, messages, allToolCalls,
\* finalReply, response, the position in the loop over the calls and
\* toolResults; heard and got remember the responses client.chat resolved
\* with and the results dispatchToolCall resolved with.
PairRun(m, mref, tref) ==
    [pc |-> "chat", message |-> m, round |-> 0, messages |-> mref,
     allToolCalls |-> tref, finalReply |-> EmptyText, response |-> NoResponse,
     next |-> 0, toolResults |-> << >>, heard |-> << >>, got |-> << >>]

\* The responses with tool calls explored for round r: one call of a
\* registered tool and no text, or text, that call and one of a name that
\* is not registered.
PairToolResponses(r) ==
    {[text |-> None, toolCalls |-> Some(WithIds(r, <<PlainCall>>))],
     [text |-> Some(<<"thinking">>),
      toolCalls |-> Some(WithIds(r, <<PlainCall,
                                     [name |-> "bogus", input |-> NullInput]>>))]}

\* The final response explored.
PairFinalResponses == {PlainFinal}

\* The rounds with tool calls that the invocations have entered.
RECURSIVE RoundsAsked(_)
RoundsAsked(rs) ==
    IF Len(rs) = 0 THEN 0
    ELSE Head(rs).round + (IF Head(rs).pc = "tool" THEN 1 ELSE 0)
         + RoundsAsked(Tail(rs))

PairResponses(rs, run) ==
    PairFinalResponses
    \cup (IF RoundsAsked(rs) < MaxPairRounds
          THEN PairToolResponses(run.round + 1) ELSE {})

\* How execute settles.
PairSettlements == {Resolves(PlainResult), Rejects(ErrorValue("boom"))}

\* runAgent is called, lines 74-104: the built-in tools are registered
\* (once per process), the two arrays are made, and the loop suspends at
\* its first client.chat.
RunAgentCalled ==
    /\ Len(pair.runs) < ConcurrentRuns
    /\ \E m \in SampleMessages :
         LET mref == NewArray(pair.conversations)
             tref == NewArray(pair.trails)
         IN  pair' =
               [pair EXCEPT
                   !.tools = registerBuiltinTools(@, pair.registered),
                   !.registered = TRUE,
                   !.conversations = Store(@, mref, <<UserMessage(m)>>),
                   !.trails = Store(@, tref, << >>),
                   !.runs = Append(@, PairRun(m, mref, tref))]
    /\ UNCHANGED outsidePair

\* client.chat resolves for invocation r, lines 100-134: without tool calls
\* the invocation returns; otherwise toolResults is made and the first call
\* is dispatched.
PairChatResolves ==
    /\ \E r \in 1..Len(pair.runs) :
         /\ pair.runs[r].pc = "chat"
         /\ \E resp \in PairResponses(pair.runs, pair.runs[r]) :
              pair' =
                [pair EXCEPT !.runs[r] =
                    IF ~HasToolCalls(resp)
                    THEN [@ EXCEPT !.pc = "done",
                                   !.finalReply = TextOrEmpty(resp.text),
                                   !.response = resp,
                                   !.heard = Append(@, resp)]
                    ELSE [@ EXCEPT !.pc = "tool",
                                   !.response = resp,
                                   !.next = 1,
                                   !.toolResults = << >>,
                                   !.heard = Append(@, resp)]]
    /\ UNCHANGED outsidePair

\* client.chat rejects for invocation r: the invocation throws.
PairChatRejects ==
    /\ \E r \in 1..Len(pair.runs) :
         /\ pair.runs[r].pc = "chat"
         /\ pair' = [pair EXCEPT !.runs[r].pc = "threw"]
    /\ UNCHANGED outsidePair

\* What dispatchToolCall resolves with for call tc when execute settles
\* as o (no execute runs for a name that is not registered).
PairResult(map, idx, tc, o) ==
    LET p == DispatchStart(map, idx, tc, ReturnsPromise)
    IN  (IF p.st = "settled" THEN p.outcome ELSE DispatchSettle(p, o)).result

\* dispatchToolCall resolves for invocation r, lines 136-155: the call and
\* its result are pushed to allToolCalls and toolResults; after the last
\* call the two messages of the round are pushed to messages and the loop
\* goes to its next client.chat.
PairDispatchReturns ==
    /\ \E r \in 1..Len(pair.runs), o \in PairSettlements :
         LET run == pair.runs[r]
             calls == Get(run.response.toolCalls)
             tc == calls[run.next]
             result == PairResult(pair.tools, run.next, tc, o)
             results == Append(run.toolResults, ToolResultEntry(tc, result))
             last == run.next = Len(calls)
         IN  /\ run.pc = "tool"
             /\ pair' =
                  [pair EXCEPT
                      !.trails[run.allToolCalls] = Append(@, AuditEntry(tc, result)),
                      !.conversations[run.messages] =
                          IF last
                          THEN @ \o RoundMessages(run.response.text, calls, results)
                          ELSE @,
                      !.runs[r] =
                          [@ EXCEPT
                              !.got = Append(@, result),
                              !.toolResults = results,
                              !.next = IF last THEN 0 ELSE @ + 1,
                              !.round = IF last THEN @ + 1 ELSE @,
                              !.pc = IF last
                                     THEN IF LoopContinues(run.round + 1)
                                          THEN "chat" ELSE "done"
                                     ELSE "tool"]]
    /\ UNCHANGED outsidePair

PairNext ==
    \/ RunAgentCalled
    \/ PairChatResolves
    \/ PairChatRejects
    \/ PairDispatchReturns

PairSpec == Init /\ [][PairNext]_vars

\* What an invocation holds when it runs alone and hears and gets what run
\* heard and got: its conversation and its audit trail, from conv and trail
\* on.
RECURSIVE AloneFrom(_, _, _, _)
AloneFrom(conv, trail, heard, got) ==
    IF Len(heard) = 0 \/ ~HasToolCalls(Head(heard))
    THEN [messages |-> conv, toolCalls |-> trail]
    ELSE LET calls == Get(Head(heard).toolCalls)
             n == IF Len(got) < Len(calls) THEN Len(got) ELSE Len(calls)
             audit == trail \o [i \in 1..n |-> AuditEntry(calls[i], got[i])]
         IN  IF n < Len(calls)
             THEN [messages |-> conv, toolCalls |-> audit]
             ELSE AloneFrom(
                      conv \o RoundMessages(Head(heard).text, calls,
                                 [i \in 1..n |-> ToolResultEntry(calls[i], got[i])]),
                      audit, Tail(heard), SubSeq(got, n + 1, Len(got)))

Alone(run) == AloneFrom(<<UserMessage(run.message)>>, << >>, run.heard, run.got)

\* C21: under any interleaving of two runAgent invocations, the
\* conversation and the audit trail (the returned toolCalls) of each are
\* those it produces alone for the same model responses and tool results.
RunsShareNoConversation ==
    \A r \in 1..Len(pair.runs) :
        /\ pair.conversations[pair.runs[r].messages] = Alone(pair.runs[r]).messages
        /\ pair.trails[pair.runs[r].allToolCalls] = Alone(pair.runs[r]).toolCalls
        /\ \A q \in 1..Len(pair.runs) :
              q # r => /\ pair.runs[q].messages # pair.runs[r].messages
                       /\ pair.runs[q].allToolCalls # pair.runs[r].allToolCalls

\* Two invocations with different messages in flight together: the first
\* has pushed the two messages of a round with two calls and waits for the
\* model again, while the second is between the two dispatches of its round
\* and has pushed no message yet.
TwoRunsInterleaved ==
    /\ Len(pair.runs) = 2
    /\ pair.runs[1].message # pair.runs[2].message
    /\ pair.runs[1].pc = "chat" /\ pair.runs[1].round = 1
    /\ pair.runs[2].pc = "tool" /\ pair.runs[2].round = 0 /\ pair.runs[2].next = 2
    /\ Len(pair.trails[pair.runs[1].allToolCalls]) = 2
    /\ Len(pair.trails[pair.runs[2].allToolCalls]) = 1
    /\ Len(pair.conversations[pair.runs[1].messages]) = 3
    /\ Len(pair.conversations[pair.runs[2].messages]) = 1

====
